---------------------------- MODULE Spec2Model ----------------------------
(***************************************************************************)
(* A model of django-optimizer: the field registry (registry.py), the      *)
(* optimizing queryset and the field-access observer (query.py,            *)
(* wrappers.py, iterables.py) and the delayed-save atomic block            *)
(* (transaction.py, monkey_patching.py).                                   *)
(*                                                                         *)
(* A cache backend (django.core.cache) is a function whose DOMAIN is the   *)
(* set of keys that hold a value: cache.get(k) is None exactly when k is   *)
(* not in the domain.  Both backends of cache.py pickle their values, so   *)
(* every value read is a copy and nothing is aliased through the cache.    *)
(***************************************************************************)
EXTENDS Integers, Sequences, FiniteSets, TLC

VARIABLES
    fcache,     \* field_registry.cache: key -> value (key list or triple)
    lastGet,    \* result of a Registry.get made after the latest add, or <<>>
    added,      \* history: the <<key, index, field>> of every finished add
    wpc,        \* concurrent writers: position inside Registry.set
    wreq,       \* concurrent writers: the add(location, index, field) running
    wval,       \* concurrent writers: local `value` read by Registry.get
    wkeys,      \* concurrent writers: local `key_list` read in add_key
    saveMethod,       \* models.Model.save: "original" or "delayed"
    defaultSaveSlot,  \* models.Model._default_save: "unset" or a save method
    depth,            \* DelayedAtomic blocks entered and not yet left
    saves,            \* save() calls made so far
    lastOp,           \* the latest operation of the caller and its outcome
    events,           \* what the latest save() or __exit__ did, in its order
    mcache,           \* model_registry.cache: key -> key list / pending copies
    pk,               \* live record: its primary-key attribute
    adding,           \* live record: _state.adding
    rows,             \* storage: rows inserted for the record
    forced,           \* single-row inserts made by DeferredPK for the record
    gathered,         \* copies handed to model_registry.add since the last flush
    resolved,         \* records force-inserted by DeferredPK since the last flush
    lastFlush,        \* bulk calls the latest operation made (those of a flush)
    liveValue,        \* live record: the value of a plain column
    rowValue,         \* storage: the column as the latest write of the row left it
    readSet,          \* the fields the call site reads on the results, each run
    query,            \* the SelectiveQuerySet of the current run
    readsDone,        \* fields read so far on the results of the current run
    runs,             \* complete runs of the call site
    startTriple,      \* the stored triple when the current query was built
    stable,           \* the latest complete run left the stored triple unchanged
    expected,         \* relations read while not cached / not batch-fetched
    manual,           \* what the call site itself asks of its query
    nested,           \* the observed sub-results that the fetch batch-fetched
    stack,            \* inspect.stack() at a queryset's construction
    located,          \* outcome of QuerySetLocation(qs) on that stack
    csvFile,          \* the file to_csv wrote: its lines, or NoFile
    target,           \* the registry from_csv loads the file into
    conf,             \* the settings the project defines for the optimizer
    backend,          \* a persistent cache backend: parameters, entries, clock
    written,          \* the value last set under each key not deleted since
    got               \* the latest cache.get on the backend and its answer

regVars == <<fcache, lastGet, added>>
raceVars == <<wpc, wreq, wval, wkeys>>
hookVars == <<saveMethod, defaultSaveSlot, depth, saves, lastOp, events>>
recVars == <<pk, adding, rows, forced>>
snapVars == <<liveValue, rowValue>>
deferVars == <<hookVars, mcache, recVars, gathered, resolved, lastFlush,
               snapVars>>
queryVars == <<readSet, query, readsDone, runs, startTriple, stable, expected,
              manual, nested>>
locVars == <<stack, located>>
csvVars == <<csvFile, target>>
confVars == <<conf>>
backendVars == <<backend, written, got>>
vars == <<regVars, raceVars, deferVars, queryVars, locVars, csvVars, confVars,
          backendVars>>

-----------------------------------------------------------------------------
(* Cache backend: get / set / delete / clear.                              *)

EmptyCache == [k \in {} |-> {}]

CacheHas(c, k) == k \in DOMAIN c

CacheSet(c, k, v) == [x \in (DOMAIN c) \cup {k} |-> IF x = k THEN v ELSE c[x]]

CacheDelete(c, k) == [x \in (DOMAIN c) \ {k} |-> c[x]]

-----------------------------------------------------------------------------
(* FieldRegistry: three sets per location, indexed SELECT, PREFETCH, ONLY. *)

SELECT == 0
PREFETCH == 1
OnlyIndex == 2   \* FieldRegistry.ONLY (a reserved word of TLA+)

Indexes == {SELECT, PREFETCH, OnlyIndex}

FieldKeyListId == "__field_registry_key_set"

\* Location keys (str(ObjectLocation)) and field names used as inputs.
Locations == {"views::Report::1", "views::Comment::2"}
Names == {"title", "owner"}

\* str() of the empty location of a call site that cannot be attributed
EmptyLocation == ""

\* initial_value=(set(), set(), set())
FieldInitialValue == [i \in Indexes |-> {}]

\* Registry.get_keys: cache.get(key_list_id) or []
get_keys(c, listId) == IF CacheHas(c, listId) THEN c[listId] ELSE <<>>

InList(k, list) == \E n \in 1..Len(list) : list[n] = k

\* Registry.has_key
has_key(c, listId, k) == InList(k, get_keys(c, listId))

\* Registry.add_key: read the list, append, write it back
add_key(c, listId, k) == CacheSet(c, listId, Append(get_keys(c, listId), k))

\* list.remove(key) removes the first occurrence
RemoveFirst(list, k) ==
    LET n == CHOOSE m \in 1..Len(list) :
                 list[m] = k /\ \A j \in 1..(m - 1) : list[j] # k
    IN  SubSeq(list, 1, n - 1) \o SubSeq(list, n + 1, Len(list))

\* Registry.get, mutated: the stored value is ignored
Registry_get_initial(c, k, initial) == initial

\* Registry.get: cache.get(str(key)) or deepcopy(initial_value).  A stored
\* value that Python takes as false (an empty list) equals the initial value
\* of its registry, so `or` changes nothing but the missing key.
Registry_get(c, k, initial) == IF CacheHas(c, k) THEN c[k] ELSE initial

FieldGet(c, k) == Registry_get(c, k, FieldInitialValue)

\* the lambda of FieldRegistry.add, mutated: the whole triple is replaced
AddModifierOverwrite(x, index, field) ==
    [i \in Indexes |-> IF i = index THEN {field} ELSE {}]

\* the lambda of FieldRegistry.add:
\*   tuple(s | {field} if index == i else s for i, s in enumerate(x))
AddModifier(x, index, field) ==
    [i \in Indexes |-> IF i = index THEN x[i] \cup {field} ELSE x[i]]

\* Registry.set, the cache after the call, for a modifier's result `newValue`
\* computed from Registry.get's result
Registry_set(c, listId, k, newValue) ==
    LET c1 == IF ~InList(k, get_keys(c, listId)) THEN add_key(c, listId, k) ELSE c
    IN  CacheSet(c1, k, newValue)

\* FieldRegistry.add: the cache after add(qs_location, index, field)
FieldRegistry_add(c, k, index, field) ==
    Registry_set(c, FieldKeyListId, k, AddModifier(FieldGet(c, k), index, field))

\* The stored set of a location under an index (empty when nothing is stored)
StoredSet(c, k, i) == IF CacheHas(c, k) THEN c[k][i] ELSE {}

-----------------------------------------------------------------------------
(* Sequential callers of the field registry.                                *)

InitRegistry ==
    /\ fcache = EmptyCache
    /\ lastGet = <<>>
    /\ added = {}

InitRace ==
    /\ wpc = [w \in {} |-> ""]
    /\ wreq = [w \in {} |-> <<>>]
    /\ wval = [w \in {} |-> <<>>]
    /\ wkeys = [w \in {} |-> <<>>]

\* field_registry.add(location, index, field), run to completion
Add(k, index, field) ==
    /\ fcache' = FieldRegistry_add(fcache, k, index, field)
    /\ added' = added \cup {<<k, index, field>>}
    /\ lastGet' = <<>>
    /\ UNCHANGED <<raceVars, deferVars, queryVars, locVars, csvVars, confVars, backendVars>>

\* field_registry.get(location)
Get(k) ==
    /\ lastGet' = <<k, FieldGet(fcache, k)>>
    /\ UNCHANGED <<fcache, added, raceVars, deferVars, queryVars, locVars, csvVars, confVars, backendVars>>

-----------------------------------------------------------------------------
(* Concurrent writers: worker processes that run FieldRegistry.add on the   *)
(* shared backend.  Each cache.get / cache.set is one atomic step;          *)
(* Registry.set takes no lock around them.                                  *)

Writers == {"w1", "w2"}

\* how many add calls one writer makes
MaxAddsPerWriter == 2

\* the (index, field) pairs the writers add
WriterFields == {<<SELECT, "owner">>, <<OnlyIndex, "title">>}

InitWriters ==
    /\ wpc = [w \in Writers |-> "idle"]
    /\ wreq = [w \in Writers |-> <<>>]
    /\ wval = [w \in Writers |-> FieldInitialValue]
    /\ wkeys = [w \in Writers |-> <<>>]

AddsBy(w) == Cardinality({a \in added : a[1] = w})

\* Registry.set line 109: value = self.get(key)
WriterGet(w, k, index, field) ==
    /\ wpc[w] = "idle"
    /\ AddsBy(w) < MaxAddsPerWriter
    /\ wreq' = [wreq EXCEPT ![w] = <<k, index, field>>]
    /\ wval' = [wval EXCEPT ![w] = FieldGet(fcache, k)]
    /\ wpc' = [wpc EXCEPT ![w] = "check_key"]
    /\ UNCHANGED <<fcache, lastGet, added, wkeys, deferVars, queryVars, locVars, csvVars, confVars, backendVars>>

\* Registry.set line 110: if key not in self.get_keys()
WriterCheckKey(w) ==
    /\ wpc[w] = "check_key"
    /\ wpc' = [wpc EXCEPT ![w] =
                 IF InList(wreq[w][1], get_keys(fcache, FieldKeyListId))
                 THEN "write" ELSE "add_key"]
    /\ UNCHANGED <<fcache, lastGet, added, wreq, wval, wkeys, deferVars, queryVars, locVars, csvVars, confVars, backendVars>>

\* Registry.add_key line 62: key_list = self.get_keys()
WriterAddKeyRead(w) ==
    /\ wpc[w] = "add_key"
    /\ wkeys' = [wkeys EXCEPT ![w] = get_keys(fcache, FieldKeyListId)]
    /\ wpc' = [wpc EXCEPT ![w] = "set_keys"]
    /\ UNCHANGED <<fcache, lastGet, added, wreq, wval, deferVars, queryVars, locVars, csvVars, confVars, backendVars>>

\* Registry.add_key lines 63-64: key_list.append(key); cache.set(id, key_list)
WriterAddKeyWrite(w) ==
    /\ wpc[w] = "set_keys"
    /\ fcache' = CacheSet(fcache, FieldKeyListId, Append(wkeys[w], wreq[w][1]))
    /\ wkeys' = [wkeys EXCEPT ![w] = <<>>]
    /\ wpc' = [wpc EXCEPT ![w] = "write"]
    /\ UNCHANGED <<lastGet, added, wreq, wval, deferVars, queryVars, locVars, csvVars, confVars, backendVars>>

\* Registry.set lines 112-113: value = modifier(value); cache.set(key, value)
WriterSet(w) ==
    /\ wpc[w] = "write"
    /\ fcache' = CacheSet(fcache, wreq[w][1],
                          AddModifier(wval[w], wreq[w][2], wreq[w][3]))
    /\ added' = added \cup {<<w, wreq[w][1], wreq[w][2], wreq[w][3]>>}
    /\ wreq' = [wreq EXCEPT ![w] = <<>>]
    /\ wval' = [wval EXCEPT ![w] = FieldInitialValue]
    /\ wpc' = [wpc EXCEPT ![w] = "idle"]
    /\ UNCHANGED <<lastGet, wkeys, deferVars, queryVars, locVars, csvVars, confVars, backendVars>>

-----------------------------------------------------------------------------
(* DelayedAtomic: the delayed-save atomic block of transaction.py.          *)
(*                                                                           *)
(* Storage is the number of rows inserted per record.  The database backend *)
(* returns the keys of bulk-inserted rows (as PostgreSQL does), so that     *)
(* bulk_create sets pk and _state.adding on the objects it is given.        *)

ModelKeyListId == "__model_registry_key_set"

\* ModelRegistry.get_key_from_model: '{module}.{name}'
Models == {"app.models.Report", "app.models.Comment", "app.models.Log"}

\* models whose default manager yields an OptimizerQuerySet
OptimizedModels == {"app.models.Report", "app.models.Comment"}

Records == {"r1", "r2", "r3", "r4", "r5"}

\* obj._meta.model of each record
ModelOf(r) ==
    CASE r \in {"r1", "r2", "r3"} -> "app.models.Report"
      [] r = "r4" -> "app.models.Comment"
      [] OTHER -> "app.models.Log"

\* The records as the caller holds them before the first save:
\*   r1, r2, r5  built without a key            (pk None, _state.adding)
\*   r3          loaded from storage            (pk set, not adding, one row)
\*   r4          built with an explicit key     (pk set, _state.adding)
InitialPk(r) == IF r \in {"r3", "r4"} THEN "key" ELSE "none"
InitialAdding(r) == r # "r3"
InitialRows(r) == IF r = "r3" THEN 1 ELSE 0

\* The plain column of a record: every record starts with the value "old",
\* which is also what the stored row of r3 holds; the caller may assign "new"
ColumnValues == {"old", "new"}
InitialValue(r) == "old"
InitialRowValue(r) == IF r = "r3" THEN "old" ELSE "none"

\* bounds of the caller's program: nesting of delayed_atomic blocks, save()
\* calls, and single-row inserts forced for one record
MaxDepth == 2
MaxSaves == 2
MaxForced == 2

\* initial_value=[]
ModelInitialValue == <<>>

\* the pending copies stored under a model's key
Pending(c, m) == Registry_get(c, m, ModelInitialValue)

\* the records that have a copy among `copies`
RecsOf(copies) == {copies[n].rec : n \in 1..Len(copies)}

\* get_db_instance(obj): a copy of the record as it is at the call
get_db_instance(r) ==
    [rec |-> r, pk |-> pk[r], adding |-> adding[r], val |-> liveValue[r]]

\* ModelRegistry.add: set(key, lambda x: x + [obj])
ModelRegistry_add(c, obj) ==
    LET key == ModelOf(obj.rec)
    IN  Registry_set(c, ModelKeyListId, key, Append(Pending(c, key), obj))

\* ModelRegistry.pop_pair, mutated: the pending list is left in the cache
pop_pair_keeps_list(c, key) == c

\* ModelRegistry.pop_pair, its effect on the cache once remove_key has found
\* the key: remove_key(key); cache.delete(key)
pop_pair(c, key) ==
    CacheDelete(CacheSet(c, ModelKeyListId,
                         RemoveFirst(get_keys(c, ModelKeyListId), key)), key)

\* ModelRegistry.pop_pair raises ValueError in remove_key (list.remove) when
\* the key is not in the key list
pop_pair_raises(c, key) == ~InList(key, get_keys(c, ModelKeyListId))

\* ModelRegistry.pop_all: [(model, get(key)) for key in get_keys()]
pop_all_pairs(c) ==
    LET keys == get_keys(c, ModelKeyListId)
    IN  [n \in 1..Len(keys) |-> <<keys[n], Pending(c, keys[n])>>]

\* django.utils.functional.partition(predicate, values) returns
\* (the values for which the predicate is false, those for which it is true)
SelectCopies(copies, flag) == SelectSeq(copies, LAMBDA o : o.adding = flag)

\* perform_delayed_db_queries line 62, mutated: the two lists are swapped
FlushPartitionSwapped(objects) ==
    [to_update |-> SelectCopies(objects, TRUE),
     to_create |-> SelectCopies(objects, FALSE)]

\* perform_delayed_db_queries line 62:
\*   to_update, to_create = partition(lambda obj: obj._state.adding, objects)
FlushPartition(objects) ==
    [to_update |-> SelectCopies(objects, FALSE),
     to_create |-> SelectCopies(objects, TRUE)]

\* perform_delayed_db_queries lines 61-64, the calls it makes for the pairs:
\* bulk_create(to_create) then bulk_update(to_update), pair after pair
RECURSIVE FlushCalls(_)
FlushCalls(pairs) ==
    IF pairs = <<>> THEN <<>>
    ELSE LET part == FlushPartition(pairs[1][2])
         IN  << [op |-> "bulk_create", model |-> pairs[1][1],
                 objs |-> part.to_create],
                [op |-> "bulk_update", model |-> pairs[1][1],
                 objs |-> part.to_update] >>
             \o FlushCalls(Tail(pairs))

\* rows that the bulk_create calls among `calls` insert for record r
RECURSIVE RowsInserted(_, _)
RowsInserted(calls, r) ==
    IF calls = <<>> THEN 0
    ELSE (IF calls[1].op = "bulk_create"
          THEN Len(SelectSeq(calls[1].objs, LAMBDA o : o.rec = r)) ELSE 0)
         + RowsInserted(Tail(calls), r)

\* bulk_create / bulk_update given the live records instead of the copies:
\* the value written is the one the live record has at the flush
bulk_value_of_live(obj, live) == live[obj.rec]

\* the column value that bulk_create / bulk_update write for a pending
\* object: the one held by the copy that get_db_instance made
bulk_value(obj, live) == obj.val

\* the column of the row of record r after the calls of a flush, made in
\* their order on a row that held `cur`
RECURSIVE RowValueAfter(_, _, _, _)
RowValueAfter(calls, r, cur, live) ==
    IF calls = <<>> THEN cur
    ELSE LET mine == SelectSeq(calls[1].objs, LAMBDA o : o.rec = r)
             next == IF mine = <<>> THEN cur
                     ELSE bulk_value(mine[Len(mine)], live)
         IN  RowValueAfter(Tail(calls), r, next, live)

NoOp == [op |-> "none", rec |-> "none", result |-> "none"]

InitDeferred ==
    /\ saveMethod = "original"
    /\ defaultSaveSlot = "unset"
    /\ depth = 0
    /\ saves = 0
    /\ lastOp = NoOp
    /\ events = <<>>
    /\ mcache = EmptyCache
    /\ pk = [r \in Records |-> InitialPk(r)]
    /\ adding = [r \in Records |-> InitialAdding(r)]
    /\ rows = [r \in Records |-> InitialRows(r)]
    /\ forced = [r \in Records |-> 0]
    /\ gathered = {}
    /\ resolved = {}
    /\ lastFlush = <<>>
    /\ liveValue = [r \in Records |-> InitialValue(r)]
    /\ rowValue = [r \in Records |-> InitialRowValue(r)]

\* replace_save_method lines 48-49
replace_save_method ==
    /\ defaultSaveSlot' = saveMethod
    /\ saveMethod' = "delayed"

\* DelayedAtomic.__enter__: replace_save_method(), then Atomic.__enter__
Enter ==
    /\ depth < MaxDepth
    /\ replace_save_method
    /\ depth' = depth + 1
    /\ lastOp' = [op |-> "enter", rec |-> "none", result |-> "none"]
    /\ events' = <<>>
    /\ lastFlush' = <<>>
    /\ UNCHANGED <<saves, mcache, recVars, gathered, resolved, snapVars,
                   regVars, raceVars, queryVars, locVars, csvVars, confVars, backendVars>>

\* _delayed_save lines 41-46, mutated: the placeholder is set before the
\* copy is taken
DelayedSaveEventsPlaceholderFirst ==
    <<"pre_save", "set_placeholder", "registry_add", "post_save">>

\* _delayed_save lines 41-46, the statements of the deferring branch in
\* their order
DelayedSaveEvents ==
    <<"pre_save", "registry_add", "set_placeholder", "post_save">>

\* Model.save_base: pre_save, the write of the row, post_save
DefaultSaveEvents == <<"pre_save", "write", "post_save">>

\* the copy that model_registry.add receives: get_db_instance(self) taken
\* where "registry_add" stands among the statements, before or after the
\* placeholder replaces the key
GatheredCopy(r, order) ==
    IF \E i, j \in 1..Len(order) :
           order[i] = "set_placeholder" /\ order[j] = "registry_add" /\ i < j
    THEN [get_db_instance(r) EXCEPT !.pk = "deferred"]
    ELSE get_db_instance(r)

\* The original Model.save: an INSERT for a record that is being added, an
\* UPDATE of its row otherwise
DefaultSave(r) ==
    /\ rows' = [rows EXCEPT ![r] = IF adding[r] THEN @ + 1 ELSE @]
    /\ pk' = [pk EXCEPT ![r] = "key"]
    /\ adding' = [adding EXCEPT ![r] = FALSE]
    /\ lastOp' = [op |-> "save", rec |-> r, result |-> "written"]
    /\ events' = DefaultSaveEvents
    /\ rowValue' = [rowValue EXCEPT ![r] = liveValue[r]]
    /\ UNCHANGED <<mcache, gathered>>

\* _delayed_save lines 41-46, mutated: the record is gathered and the
\* original save runs as well
GatherSaveAndWrite(r) ==
    /\ mcache' = ModelRegistry_add(mcache, GatheredCopy(r, DelayedSaveEvents))
    /\ gathered' = gathered \cup {GatheredCopy(r, DelayedSaveEvents)}
    /\ pk' = [pk EXCEPT ![r] = "deferred"]
    /\ lastOp' = [op |-> "save", rec |-> r, result |-> "gathered"]
    /\ events' = DelayedSaveEvents
    /\ rows' = [rows EXCEPT ![r] = @ + 1]
    /\ rowValue' = [rowValue EXCEPT ![r] = liveValue[r]]
    /\ UNCHANGED adding

\* _delayed_save lines 41-46: pre_save, model_registry.add(get_db_instance(self)),
\* setattr(self, pk.attname, DeferredPK(self)), post_save
GatherSave(r) ==
    /\ mcache' = ModelRegistry_add(mcache, GatheredCopy(r, DelayedSaveEvents))
    /\ gathered' = gathered \cup {GatheredCopy(r, DelayedSaveEvents)}
    /\ pk' = [pk EXCEPT ![r] = "deferred"]
    /\ lastOp' = [op |-> "save", rec |-> r, result |-> "gathered"]
    /\ events' = DelayedSaveEvents
    /\ UNCHANGED <<rows, adding, rowValue>>

\* record.save().  A record is not saved again while its key is a placeholder:
\* what Django's insert does with a DeferredPK value is outside this code.
Save(r) ==
    /\ saves < MaxSaves
    /\ saves' = saves + 1
    /\ pk[r] # "deferred"
    /\ IF saveMethod = "original"
       THEN DefaultSave(r)
       ELSE IF ModelOf(r) \in OptimizedModels
            THEN GatherSave(r)
            ELSE \* self._default_save(**kwargs): _delayed_save again when the
                 \* slot holds it (unbounded recursion), missing when unset
                 IF defaultSaveSlot = "original"
                 THEN DefaultSave(r)
                 ELSE /\ lastOp' = [op |-> "save", rec |-> r,
                                    result |-> "raised"]
                      /\ events' = <<>>
                      /\ UNCHANGED <<rows, pk, adding, mcache, gathered,
                                     rowValue>>
    /\ lastFlush' = <<>>
    /\ UNCHANGED <<saveMethod, defaultSaveSlot, depth, forced, resolved,
                   liveValue, regVars, raceVars, queryVars, locVars, csvVars, confVars, backendVars>>

\* DeferredPK._save_and_retrieve_pk, run for the placeholder of record r:
\* the single-row bulk_create (on a copy that shares _state with the live
\* record), pop_pair for the model, then setattr of the key on the record
SaveAndRetrievePk(r) ==
    /\ rows' = [rows EXCEPT ![r] = @ + 1]
    /\ rowValue' = [rowValue EXCEPT ![r] = liveValue[r]]
    /\ forced' = [forced EXCEPT ![r] = @ + 1]
    /\ adding' = [adding EXCEPT ![r] = FALSE]
    /\ resolved' = resolved \cup {r}
    /\ IF pop_pair_raises(mcache, ModelOf(r))
       THEN /\ lastOp' = [op |-> "read", rec |-> r, result |-> "ValueError"]
            /\ UNCHANGED <<mcache, pk>>
       ELSE /\ mcache' = pop_pair(mcache, ModelOf(r))
            /\ pk' = [pk EXCEPT ![r] = "key"]
            /\ lastOp' = [op |-> "read", rec |-> r, result |-> "key"]

\* A read of the primary key of a record that _delayed_save has gathered.
\*   "attribute": record.pk / record.id, through Model.__getattribute__ as
\*                monkey_patching.py installs it (deferred_getattribute calls
\*                val.get_value(), which DeferredPK does not define);
\*   "coerce":    int() or str() of the placeholder (DeferredPK.__int__ /
\*                __str__ -> _get_value).
ReadPk(r, how) ==
    /\ pk[r] = "deferred" \/ forced[r] > 0
    /\ IF pk[r] = "deferred"
       THEN IF how = "attribute"
            THEN /\ lastOp' = [op |-> "read", rec |-> r,
                               result |-> "AttributeError"]
                 /\ UNCHANGED <<rows, forced, adding, resolved, mcache, pk,
                                rowValue>>
            ELSE /\ forced[r] < MaxForced
                 /\ SaveAndRetrievePk(r)
       ELSE /\ lastOp' = [op |-> "read", rec |-> r, result |-> "key"]
            /\ UNCHANGED <<rows, forced, adding, resolved, mcache, pk,
                                rowValue>>
    /\ lastFlush' = <<>>
    /\ events' = <<>>
    /\ UNCHANGED <<saveMethod, defaultSaveSlot, depth, saves, gathered,
                   liveValue, regVars, raceVars, queryVars, locVars, csvVars, confVars, backendVars>>

\* records whose column the caller may assign to
MaxAssigns == 1

\* record.column = "new": an assignment to the live record the caller holds
Assign(r) ==
    /\ liveValue[r] = InitialValue(r)
    /\ Cardinality({x \in Records : liveValue[x] # InitialValue(x)}) < MaxAssigns
    /\ liveValue' = [liveValue EXCEPT ![r] = "new"]
    /\ lastOp' = [op |-> "assign", rec |-> r, result |-> "none"]
    /\ events' = <<>>
    /\ lastFlush' = <<>>
    /\ UNCHANGED <<saveMethod, defaultSaveSlot, depth, saves, mcache, recVars,
                   gathered, resolved, rowValue, regVars, raceVars, queryVars,
                   locVars, csvVars, confVars, backendVars>>

\* the names that transaction.py binds at module level
TransactionNames ==
    {"_get_signal_params", "get_db_instance", "replace_save_method",
     "rollback_save_method", "perform_delayed_db_queries", "DeferredPK",
     "DelayedAtomic", "delayed_atomic"}

\* from django_optimizer.transaction import <name>: ImportError when the
\* module binds no such name
import_raises(name) == name \notin TransactionNames

\* perform_delayed_db_queries(model) lines 58-60: the pairs to flush for the
\* key of one model, none when the registry does not have the key
model_pairs(c, key) ==
    IF has_key(c, ModelKeyListId, key)
    THEN << <<key, Pending(c, key)>> >>
    ELSE <<>>

\* the evaluations of a DeferredQuerySet; count and exists on a queryset
\* that holds its results already ("..._cached") skip _refresh_db
EvalOps == {"fetch_all", "count", "exists", "count_cached", "exists_cached"}
Refreshing(op) == op \in {"fetch_all", "count", "exists"}

\* DeferredQuerySet._fetch_all / count / exists on a queryset of model m:
\* _refresh_db (the import of perform_deferred_db_queries from
\* transaction.py, then the flush of m's pending records), then the
\* evaluation of the base class
Evaluate(m, op) ==
    /\ IF Refreshing(op)
       THEN IF import_raises("perform_deferred_db_queries")
            THEN /\ lastOp' = [op |-> op, rec |-> m, result |-> "ImportError"]
                 /\ lastFlush' = <<>>
                 /\ UNCHANGED <<mcache, rows, rowValue>>
            ELSE /\ lastFlush' = FlushCalls(model_pairs(mcache, m))
                 /\ mcache' = IF has_key(mcache, ModelKeyListId, m)
                              THEN pop_pair(mcache, m) ELSE mcache
                 /\ rows' = [r \in Records |->
                               rows[r] + RowsInserted(lastFlush', r)]
                 /\ rowValue' = [r \in Records |->
                                   RowValueAfter(lastFlush', r, rowValue[r],
                                                 liveValue)]
                 /\ lastOp' = [op |-> op, rec |-> m, result |-> "evaluated"]
       ELSE /\ lastOp' = [op |-> op, rec |-> m, result |-> "evaluated"]
            /\ lastFlush' = <<>>
            /\ UNCHANGED <<mcache, rows, rowValue>>
    /\ events' = <<>>
    /\ UNCHANGED <<saveMethod, defaultSaveSlot, depth, saves, pk, adding,
                   forced, gathered, resolved, liveValue, regVars, raceVars,
                   queryVars, locVars, csvVars, confVars, backendVars>>

ExitPaths == {"normal", "body_exception", "atomic_exit_exception"}

\* DelayedAtomic.__exit__ lines 130-132, the statements in their order
ExitSteps ==
    <<"atomic_exit", "rollback_save_method", "perform_delayed_db_queries">>

\* the statements run when `last` is the one that raises or the final one
StepsUntil(steps, last) ==
    SubSeq(steps, 1, CHOOSE n \in 1..Len(steps) : steps[n] = last)

\* DelayedAtomic.__exit__: Atomic.__exit__ (which may raise, as when the
\* commit fails), rollback_save_method(), perform_delayed_db_queries()
Exit(path) ==
    /\ depth >= 1
    /\ depth' = depth - 1
    /\ IF path = "atomic_exit_exception"
       THEN /\ lastOp' = [op |-> "exit", rec |-> path, result |-> "raised"]
            /\ lastFlush' = <<>>
            /\ UNCHANGED <<saveMethod, defaultSaveSlot, mcache, rows,
                           gathered, resolved, rowValue>>
       ELSE IF defaultSaveSlot = "unset"
            THEN \* rollback_save_method: AttributeError on _default_save
                 /\ lastOp' = [op |-> "exit", rec |-> path,
                               result |-> "AttributeError"]
                 /\ lastFlush' = <<>>
                 /\ UNCHANGED <<saveMethod, defaultSaveSlot, mcache, rows,
                                gathered, resolved, rowValue>>
            ELSE /\ saveMethod' = defaultSaveSlot
                 /\ defaultSaveSlot' = "unset"
                 /\ lastFlush' = FlushCalls(pop_all_pairs(mcache))
                 /\ mcache' = EmptyCache
                 /\ rows' = [r \in Records |->
                               rows[r] + RowsInserted(lastFlush', r)]
                 /\ rowValue' = [r \in Records |->
                                   RowValueAfter(lastFlush', r, rowValue[r],
                                                 liveValue)]
                 /\ gathered' = {}
                 /\ resolved' = {}
                 /\ lastOp' = [op |-> "exit", rec |-> path,
                               result |-> "flushed"]
    /\ events' = StepsUntil(ExitSteps,
                            IF path = "atomic_exit_exception"
                            THEN "atomic_exit"
                            ELSE IF defaultSaveSlot = "unset"
                                 THEN "rollback_save_method"
                                 ELSE "perform_delayed_db_queries")
    /\ UNCHANGED <<saves, pk, adding, forced, liveValue, regVars, raceVars, queryVars, locVars, csvVars, confVars, backendVars>>

-----------------------------------------------------------------------------
(* SelectiveQuerySet and the observer of field reads (query.py,             *)
(* wrappers.py).  One call site builds a query on model Report, fetches it  *)
(* and reads fields on the records it yields, run after run.                *)

\* the location key of the call site
SiteLocation == "views::Report::1"

\* Fields of the queried model, as model._meta.get_field answers:
\*   title     a plain column
\*   owner     ForeignKey, not null
\*   editor    ForeignKey, null=True
\*   tags      ManyToManyField
\*   comments  the reverse side of a ForeignKey (ManyToOneRel)
FieldNames == {"title", "owner", "editor", "tags", "comments"}

\* isinstance(field, models.Field): forward fields are, reverse relations
\* (ForeignObjectRel) are not
IsModelField(f) == f \in {"title", "owner", "editor", "tags"}
IsRelation(f) == f \in {"owner", "editor", "tags", "comments"}
\* field.one_to_one or field.many_to_one
ToOne(f) == f \in {"owner", "editor"}
\* field.one_to_many or field.many_to_many
ToMany(f) == f \in {"tags", "comments"}
\* field.null
Nullable(f) == f = "editor"

\* how many times the call site runs
MaxRuns == 3

\* What settings.<NAME> finds for the three flags: the value the project's
\* settings give, else the class attribute of DjangoOptimizerSettings, else
\* nothing ("undefined": the lookup raises AttributeError).  conf.py gives
\* DJANGO_OPTIMIZER_LIVE_OPTIMIZATION and DJANGO_OPTIMIZER_LOGGING a default
\* and DJANGO_OPTIMIZER_DISABLE_LOGGING none.
Confs ==
    [LIVE_OPTIMIZATION : {"True", "False"},
     LOGGING : {"True", "False"},
     DISABLE_LOGGING : {"undefined", "True", "False"}]

\* a project that sets DJANGO_OPTIMIZER_DISABLE_LOGGING = False and leaves
\* the other flags at their defaults
ObservingConf ==
    [LIVE_OPTIMIZATION |-> "True", LOGGING |-> "True", DISABLE_LOGGING |-> "False"]

InitConf == conf = ObservingConf

NoSelect == [mode |-> "none", names |-> {}]

\* query.deferred_loading of a query without only() / defer()
NoDeferral == [names |-> {}, defer |-> TRUE]

\* what a record carries before an iterable has attached anything to it
NoCarried == [qs_location |-> "", prefetch_lookup_names |-> {}]

\* no batch-fetched sub-result
NoNested == <<>>

\* a queryset before __init__ has run
NoQuery ==
    [phase |-> "none", registry_fields |-> FieldInitialValue,
     without_only |-> TRUE, live_optimization |-> TRUE,
     select_related |-> NoSelect, prefetch_lookups |-> <<>>,
     deferred_loading |-> NoDeferral, fields |-> "None",
     result_cache |-> "None", iterable_class |-> "ModelIterable",
     yielded |-> "none", carried |-> NoCarried]

\* a lookup given as a string: prefetch_related('tags')
StringLookup(name) == [through |-> name, queryset |-> "None"]

\* a call site that asks nothing of its query: Report.objects.all()
NoManual ==
    [select_related |-> NoSelect, prefetch_lookups |-> <<>>,
     deferred_loading |-> NoDeferral]

\* What the call site may have asked before the fetch:
\*   select_related()  (the wildcard)  or  select_related('owner'),
\*   prefetch_related('tags'),
\*   defer('title')  or  only('title')
ManualConfigs ==
    [select_related : {NoSelect, [mode |-> "all", names |-> {}],
                       [mode |-> "fields", names |-> {"owner"}]},
     prefetch_lookups : {<<>>, <<StringLookup("tags")>>},
     deferred_loading : {NoDeferral, [names |-> {"title"}, defer |-> TRUE],
                         [names |-> {"title"}, defer |-> FALSE]}]

\* SelectiveQuerySet.__init__ lines 43-47; cfg is what the manual
\* select_related / prefetch_related / only / defer calls of the call site
\* leave on the query (each clone runs __init__ again at the same site)
NewQuerySet(c, location, cfg, cf) ==
    [NoQuery EXCEPT !.phase = "built",
                    !.select_related = cfg.select_related,
                    !.prefetch_lookups = cfg.prefetch_lookups,
                    !.deferred_loading = cfg.deferred_loading,
                    !.live_optimization = (cf.LIVE_OPTIMIZATION = "True"),
                    !.registry_fields = FieldGet(c, location),
                    !.without_only = (FieldGet(c, location)[OnlyIndex] = {})]

\* _filter_nullable_fields (lines 163-171): keys of nullable fields are dropped
filter_nullable_fields(names) == {f \in names : ~Nullable(f)}

\* _perform_select_related, mutated: no early return on the wildcard
perform_select_related_over_wildcard(q, fields) ==
    IF fields # {}
    THEN [q EXCEPT !.select_related =
             [mode |-> "fields",
              names |-> filter_nullable_fields(q.select_related.names \cup fields)]]
    ELSE q

\* _perform_select_related (lines 147-173).  `qs.select_for_update` is the
\* bound method of the queryset, which is true, so the nullable names are
\* filtered out of every select_related that is not a bool.
perform_select_related(q, fields) ==
    IF q.select_related.mode = "all" THEN q
    ELSE LET qs == IF fields # {}
                   THEN [q EXCEPT !.select_related =
                            [mode |-> "fields",
                             names |-> q.select_related.names \cup fields]]
                   ELSE q
         IN  IF qs.select_related.mode = "fields"
             THEN [qs EXCEPT !.select_related.names = filter_nullable_fields(@)]
             ELSE qs

\* getattr(lookup, 'prefetch_through', str(lookup)) for each lookup
prefetch_lookup_names(q) ==
    { q.prefetch_lookups[n].through : n \in DOMAIN q.prefetch_lookups }

\* type(model.objects.all()) for the model on the other side of a to-many
\* relation: Tag has a plain manager, Comment an optimizing one
RelatedQuerySetClass(label) ==
    IF label = "comments" THEN "OptimizerQuerySet" ELSE "QuerySet"

\* isinstance(queryset, SelectiveQuerySet)
IsSelective(class) == class \in {"OptimizerQuerySet", "DjangoSelectiveQuerySet"}

\* selective_query_set_wrapper (wrappers.py lines 15-34): the class of the
\* queryset it returns
selective_query_set_wrapper(class) ==
    IF ~IsSelective(class) THEN "DjangoSelectiveQuerySet" ELSE class

\* the order in which the loop of _perform_prefetch_related meets the labels
LabelOrder == <<"comments", "tags", "editor", "owner", "title">>

\* _perform_prefetch_related, mutated: no test of the lookups already there
RECURSIVE AppendPrefetchesUntested(_, _, _)
AppendPrefetchesUntested(lookups, labels, present) ==
    IF labels = <<>> THEN lookups
    ELSE AppendPrefetchesUntested(
             Append(lookups,
                    [through |-> Head(labels),
                     queryset |-> selective_query_set_wrapper(
                                      RelatedQuerySetClass(Head(labels)))]),
             Tail(labels), present)

\* the loop of _perform_prefetch_related (lines 183-192): a LoggingPrefetch
\* for each label that is not among the lookups of self
RECURSIVE AppendPrefetches(_, _, _)
AppendPrefetches(lookups, labels, present) ==
    IF labels = <<>> THEN lookups
    ELSE IF Head(labels) \in present
         THEN AppendPrefetches(lookups, Tail(labels), present)
         ELSE AppendPrefetches(
                  Append(lookups,
                         [through |-> Head(labels),
                          queryset |-> selective_query_set_wrapper(
                                           RelatedQuerySetClass(Head(labels)))]),
                  Tail(labels), present)

\* _perform_prefetch_related (lines 175-194)
perform_prefetch_related(q, fields) ==
    [q EXCEPT !.prefetch_lookups =
         AppendPrefetches(@, SelectSeq(LabelOrder, LAMBDA l : l \in fields),
                          prefetch_lookup_names(q))]

\* _perform_only, mutated: the select_related keys are left out
perform_only_without_joins(q, fields) ==
    IF fields = {} THEN q
    ELSE [q EXCEPT !.deferred_loading =
             [names |-> IF q.deferred_loading.defer
                        THEN fields \ q.deferred_loading.names
                        ELSE fields \cup q.deferred_loading.names,
              defer |-> FALSE]]

\* _perform_only, mutated: an earlier defer() is not reconciled
perform_only_unreconciled(q, fields) ==
    IF fields = {} THEN q
    ELSE [q EXCEPT !.deferred_loading =
             [names |-> IF q.select_related.mode = "fields"
                        THEN fields \cup q.select_related.names ELSE fields,
              defer |-> FALSE]]

\* OptimizerQuerySet._perform_only of models.py (lines 130-151), the earlier
\* queryset: 'id' and the select_related keys are added, then only(); only()
\* drops the names an earlier defer() holds and replaces an earlier only()
perform_only_models(q, fields) ==
    LET f1 == fields \cup {"id"}
        f2 == IF q.select_related.mode = "fields"
              THEN f1 \cup q.select_related.names ELSE f1
    IN  [q EXCEPT !.deferred_loading =
            [names |-> IF q.deferred_loading.defer
                       THEN f2 \ q.deferred_loading.names ELSE f2,
             defer |-> FALSE]]

\* _perform_only (lines 196-223): nothing on an empty set; else only() with
\* the names, the select_related keys, and the earlier only()/defer() names
\* reconciled (add_immediate_loading leaves the mode "only these")
perform_only(q, fields) ==
    IF fields = {} THEN q
    ELSE LET f1 == IF q.select_related.mode = "fields"
                   THEN fields \cup q.select_related.names ELSE fields
             f2 == IF q.deferred_loading.defer
                   THEN f1 \ q.deferred_loading.names
                   ELSE f1 \cup q.deferred_loading.names
         IN  [q EXCEPT !.deferred_loading = [names |-> f2, defer |-> FALSE]]

\* _prepare_qs (line 145)
prepare_qs(q, select, prefetch, only) ==
    perform_only(
        perform_prefetch_related(perform_select_related(q, select), prefetch),
        only)

\* the swap of the iterable class, lines 97-98
LoggingClassOf(class) ==
    IF class = "ModelIterable" THEN "LoggingModelIterable" ELSE class

\* _optimize, mutated: the guard of line 90 is left out
optimize_unguarded(q) ==
    LET qs == IF q.live_optimization
              THEN prepare_qs(q, q.registry_fields[SELECT],
                              q.registry_fields[PREFETCH],
                              q.registry_fields[OnlyIndex])
              ELSE q
    IN  [qs EXCEPT !.iterable_class = LoggingClassOf(@)]

\* _optimize (lines 82-98); self._location is a location of the application
optimize(q) ==
    IF q.result_cache = "None" /\ q.fields = "None"
    THEN LET qs == IF q.live_optimization
                   THEN prepare_qs(q, q.registry_fields[SELECT],
                                   q.registry_fields[PREFETCH],
                                   q.registry_fields[OnlyIndex])
                   ELSE q
         IN  [qs EXCEPT !.iterable_class = LoggingClassOf(@)]
    ELSE q

\* the kinds of projection: values(), values_list(), values_list(flat=True)
Projections == {"values", "values_list", "flat"}

\* values / values_list (lines 58-80): _optimize() on self, then the clone
\* of the base class with the projection and the iterable class of the kind.
\* The clone runs __init__; Query.set_values drops the select_related and
\* the deferred loading of the clone.
values(q, kind, c, location, cf) ==
    LET self == optimize(q)
    IN  [self EXCEPT
            !.phase = "built",
            !.result_cache = "None",
            !.yielded = "none",
            !.carried = NoCarried,
            !.fields = kind,
            !.select_related = NoSelect,
            !.deferred_loading = NoDeferral,
            !.live_optimization = (cf.LIVE_OPTIMIZATION = "True"),
            !.registry_fields = FieldGet(c, location),
            !.without_only = (FieldGet(c, location)[OnlyIndex] = {}),
            !.iterable_class =
                CASE kind = "values" -> "LoggingValuesIterable"
                  [] kind = "values_list" -> "LoggingValuesListIterable"
                  [] OTHER -> "FlatValuesListIterable"]

LoggingIterables ==
    {"LoggingModelIterable", "LoggingValuesIterable", "LoggingValuesListIterable"}

\* LoggingIterable.__iter__ (iterables.py lines 15-35) on a result that has
\* rows: how the rows are yielded, or the error raised on the first of them.
\*   "wrapped"  a record with the location attached and the observer hooked
\*   "dict"     a values() row with the location stored in it, no observer
\*   "plain"    the row as the base iterable made it
LoggingIterable_iter(class, cf) ==
    IF class \notin LoggingIterables THEN "plain"
    ELSE IF cf.DISABLE_LOGGING = "undefined" THEN "AttributeError"
    ELSE IF cf.DISABLE_LOGGING = "True" THEN "plain"
    ELSE CASE class = "LoggingModelIterable" -> "wrapped"
           [] class = "LoggingValuesIterable" -> "dict"
           [] OTHER -> "TypeError"

\* LoggingIterable.__iter__, mutated: every record is given the location of
\* the call site's own queryset
LoggingIterable_attrs_of_site(location, q) ==
    [qs_location |-> "views::Report::1",
     prefetch_lookup_names |-> prefetch_lookup_names(q)]

\* LoggingIterable.__iter__ lines 18-23 and 30-31: what is attached to each
\* record before it is yielded, the _location of the queryset and the names
\* of its lookups
LoggingIterable_attrs(location, q) ==
    [qs_location |-> location,
     prefetch_lookup_names |-> prefetch_lookup_names(q)]

\* _perform_prefetch_related lines 188-189: the model behind a to-many name
\* of Report (field.related_model, the field being Report's own)
RelatedModel(label) == IF label = "comments" THEN "Comment" ELSE "Tag"

\* str(ObjectLocation(name)) at the call site of the runs: the key of the
\* site with the name of the model in it
ObjectLocation(name) ==
    CASE name = "Report" -> "views::Report::1"
      [] name = "Comment" -> "views::Comment::1"
      [] OTHER -> "views::Tag::1"

\* the class of the queryset that fetches the sub-result of a lookup: the
\* queryset of the Prefetch object, or that of the related manager for a
\* lookup given as a string
LookupQuerySetClass(lookup) ==
    IF lookup.queryset = "None" THEN RelatedQuerySetClass(lookup.through)
    ELSE lookup.queryset

\* the lookups of q whose sub-results come from a SelectiveQuerySet
ObservedLookups(q) ==
    { q.prefetch_lookups[n].through : n \in
          { m \in DOMAIN q.prefetch_lookups :
                IsSelective(LookupQuerySetClass(q.prefetch_lookups[m])) } }

\* the sub-result of one lookup: the related queryset runs __init__ with
\* ObjectLocation(model.__name__) (query.py line 45, wrappers.py line 31),
\* is optimized and fetched, and its iterable attaches to the records what
\* it holds
NestedResult(label, c, cf) ==
    LET loc == ObjectLocation(RelatedModel(label))
        nq == optimize(NewQuerySet(c, loc,
                                   [select_related |-> NoSelect,
                                    prefetch_lookups |-> <<>>,
                                    deferred_loading |-> NoDeferral], cf))
    IN  [qs |-> [nq EXCEPT !.phase = "fetched", !.result_cache = "rows",
                           !.yielded = LoggingIterable_iter(nq.iterable_class, cf),
                           !.carried = LoggingIterable_attrs(loc, nq)],
         readsDone |-> {}]

\* prefetch_related_objects after the rows of q are in: one sub-result for
\* each lookup that a SelectiveQuerySet fetches
NestedResults(q, c, cf) ==
    [label \in ObservedLookups(q) |-> NestedResult(label, c, cf)]

\* the location under which the observer files the reads of a record: the
\* one attached to the record when it was materialized
RecordLocation(qs) == qs.carried.qs_location

\* obj._queryset of a yielded record: the queryset that materialized it.
\* wrappers.py reads the attribute; the iterable of this tree attaches
\* _qs_location and _prefetch_lookup_names, so the link to the queryset is
\* taken from the specification of the observer (a record's location and
\* batch-fetch lookup names are attached when it is materialized).
RecordQuerySet == query

\* hasattr(obj, field.get_cache_name()): the related object came with the row
\* (select_related() without names follows the foreign keys that are not null)
Cached(q, f) ==
    \/ q.select_related.mode = "fields" /\ f \in q.select_related.names
    \/ q.select_related.mode = "all" /\ ~Nullable(f)

\* wrappers.py lines 44-80: the registry additions a read of `item` makes, as
\* <<index, field>> pairs in the order of the calls
ObservedAdds(q, item) ==
    IF ~IsModelField(item) THEN <<>>
    ELSE (IF q.without_only THEN << <<OnlyIndex, item>> >> ELSE <<>>)
         \o (IF IsRelation(item) /\ ToOne(item) /\ ~Cached(q, item)
             THEN << <<SELECT, item>> >> ELSE <<>>)
         \o (IF IsRelation(item) /\ ToMany(item)
                /\ item \notin prefetch_lookup_names(q)
             THEN << <<PREFETCH, item>> >> ELSE <<>>)

\* names a caller may read on a record: the fields, the primary key, a
\* private attribute, a property of the class, and a name nothing defines
AttrNames == FieldNames \cup {"id", "_state", "full_name", "missing"}

\* item.startswith('_')
Private(item) == item = "_state"

\* model._meta.get_field(item): raises FieldDoesNotExist for other names
get_field_raises(item) == item \notin FieldNames

\* object.__getattribute__(self, item): what the read raises
object_getattribute(item) == IF item = "missing" THEN "AttributeError" ELSE "none"

\* instance_getattribute, mutated: FieldDoesNotExist is not caught
instance_getattribute_uncaught(q, item) ==
    IF item # "id" /\ ~Private(item)
    THEN IF get_field_raises(item)
         THEN [adds |-> <<>>, raised |-> "FieldDoesNotExist"]
         ELSE [adds |-> ObservedAdds(q, item), raised |-> object_getattribute(item)]
    ELSE [adds |-> <<>>, raised |-> object_getattribute(item)]

\* instance_getattribute (wrappers.py lines 71-80): the registry additions
\* of the read and what the read raises
instance_getattribute(q, item) ==
    IF item # "id" /\ ~Private(item)
    THEN IF get_field_raises(item)
         THEN [adds |-> <<>>, raised |-> object_getattribute(item)]
         ELSE [adds |-> ObservedAdds(q, item), raised |-> object_getattribute(item)]
    ELSE [adds |-> <<>>, raised |-> object_getattribute(item)]

\* a plain column that the fetch of q left out of its rows: named by an
\* earlier defer(), or not named by only().  (The column of a to-one
\* relation is read under its attname, which is none of the names read here.)
Deferred(q, item) ==
    /\ IsModelField(item) /\ ~IsRelation(item)
    /\ IF q.deferred_loading.defer
       THEN item \in q.deferred_loading.names
       ELSE q.deferred_loading.names # {} /\ item \notin q.deferred_loading.names

\* Model.refresh_from_db, which a record without the wrapper runs: the
\* columns are loaded and nothing is reported
refresh_from_db_unwrapped(fields) == <<>>

\* refresh_from_db of the wrapper (wrappers.py lines 82-86), which the
\* descriptor of a deferred column calls with that column: _add_only for
\* each of the fields, then the refresh of the base class
refresh_from_db(fields) == [n \in 1..Len(fields) |-> <<OnlyIndex, fields[n]>>]

\* the registry additions of a read of `item` on a wrapped record: those of
\* instance_getattribute, then those of the refresh that loads a deferred
\* column when the read goes on to the attribute
ReadAdds(q, item) ==
    instance_getattribute(q, item).adds
        \o (IF Deferred(q, item) THEN refresh_from_db(<<item>>) ELSE <<>>)

\* SelectiveQuerySet._add_field (lines 225-227), for a list of additions:
\* the cache and the queryset's _registry_fields after them
RECURSIVE AddFields(_, _, _)
AddFields(c, fields, adds) ==
    IF adds = <<>> THEN [cache |-> c, fields |-> fields]
    ELSE IF adds[1][2] \in fields[adds[1][1]]
         THEN AddFields(c, fields, Tail(adds))
         ELSE LET c1 == FieldRegistry_add(c, SiteLocation, adds[1][1], adds[1][2])
              IN  AddFields(c1, c1[SiteLocation], Tail(adds))

\* the same for a queryset of another location
RECURSIVE AddFieldsAt(_, _, _, _)
AddFieldsAt(c, location, fields, adds) ==
    IF adds = <<>> THEN [cache |-> c, fields |-> fields]
    ELSE IF adds[1][2] \in fields[adds[1][1]]
         THEN AddFieldsAt(c, location, fields, Tail(adds))
         ELSE LET c1 == FieldRegistry_add(c, location, adds[1][1], adds[1][2])
              IN  AddFieldsAt(c1, location, c1[location], Tail(adds))

InitQuery ==
    /\ readSet = {}
    /\ query = NoQuery
    /\ nested = NoNested
    /\ readsDone = {}
    /\ runs = 0
    /\ startTriple = FieldInitialValue
    /\ stable = FALSE
    /\ expected = {}
    /\ manual = NoManual

\* the call site of the runs: any set of fields may be the one it reads
InitSite ==
    /\ readSet \in SUBSET FieldNames
    /\ query = NoQuery
    /\ nested = NoNested
    /\ readsDone = {}
    /\ runs = 0
    /\ startTriple = FieldInitialValue
    /\ stable = FALSE
    /\ expected = {}
    /\ manual \in ManualConfigs

\* A run begins: Report.objects.filter(...) at the call site.  The run before
\* it, if any, has read every field of readSet.
BuildQuery ==
    /\ runs < MaxRuns
    /\ query.phase = "none" \/ (query.phase = "fetched" /\ readsDone = readSet)
    /\ query' = NewQuerySet(fcache, SiteLocation, manual, conf)
    /\ startTriple' = FieldGet(fcache, SiteLocation)
    /\ runs' = IF query.phase = "fetched" THEN runs + 1 ELSE runs
    /\ stable' = (query.phase = "fetched"
                  /\ FieldGet(fcache, SiteLocation) = startTriple)
    /\ readsDone' = {}
    /\ nested' = NoNested
    /\ UNCHANGED <<readSet, expected, manual, regVars, raceVars, deferVars,
                   locVars, csvVars, confVars, backendVars>>

\* _fetch_all (lines 49-56): _optimize(), then the rows are fetched through
\* the iterable class; an error of the iterable leaves no result cache
FetchAll ==
    /\ query.phase = "built"
    /\ LET q == optimize(query)
           out == LoggingIterable_iter(q.iterable_class, conf)
       IN  /\ query' = IF out \in {"AttributeError", "TypeError"}
                       THEN [q EXCEPT !.phase = "raised", !.yielded = out]
                       ELSE [q EXCEPT !.phase = "fetched",
                                      !.result_cache = "rows",
                                      !.yielded = out,
                                      !.carried =
                                          IF out \in {"wrapped", "dict"}
                                          THEN LoggingIterable_attrs(SiteLocation, q)
                                          ELSE NoCarried]
           /\ nested' = IF out = "wrapped"
                        THEN NestedResults(q, fcache, conf)
                        ELSE NoNested
    /\ UNCHANGED <<readSet, readsDone, runs, startTriple, stable, expected, manual,
                   regVars, raceVars, deferVars, locVars, csvVars, confVars, backendVars>>

\* _fetch_all on a queryset that holds its results: _optimize() again, and
\* nothing is fetched
FetchAgain ==
    /\ query.phase = "fetched"
    /\ query' = optimize(query)
    /\ UNCHANGED <<nested, readSet, readsDone, runs, startTriple, stable, expected, manual,
                   regVars, raceVars, deferVars, locVars, csvVars, confVars, backendVars>>

\* qs.values(...) / qs.values_list(...) on the queryset of the call site
Values(kind) ==
    /\ query.phase \in {"built", "fetched"}
    /\ query.fields = "None"
    /\ readsDone = {}
    /\ query' = values(query, kind, fcache, SiteLocation, conf)
    /\ nested' = NoNested
    /\ UNCHANGED <<readSet, readsDone, runs, startTriple, stable, expected, manual,
                   regVars, raceVars, deferVars, locVars, csvVars, confVars, backendVars>>

\* a read of `item` on the records the query yielded; only a wrapped record
\* has the observer
ReadField(item) ==
    /\ query.phase = "fetched"
    /\ item \in readSet \ readsDone
    /\ LET adds == IF query.yielded = "wrapped"
                   THEN ReadAdds(RecordQuerySet, item)
                   ELSE <<>>
           res == AddFields(fcache, RecordQuerySet.registry_fields, adds)
       IN  /\ fcache' = res.cache
           /\ query' = [RecordQuerySet EXCEPT !.registry_fields = res.fields]
    /\ readsDone' = readsDone \cup {item}
    /\ expected' = expected \cup
           (IF (ToOne(item) /\ ~Cached(query, item))
               \/ (ToMany(item) /\ item \notin prefetch_lookup_names(query))
            THEN {item} ELSE {})
    /\ UNCHANGED <<readSet, runs, startTriple, stable, manual, nested, lastGet,
                   added, raceVars, deferVars, locVars, csvVars, confVars,
                   backendVars>>

\* the plain column that each related model has
NestedColumns == {"title"}

\* a read of `item` on the records of the sub-result of lookup `label`
ReadNested(label, item) ==
    /\ query.phase = "fetched"
    /\ label \in DOMAIN nested
    /\ item \in NestedColumns \ nested[label].readsDone
    /\ LET qs == nested[label].qs
           adds == IF qs.yielded = "wrapped" THEN ReadAdds(qs, item) ELSE <<>>
           res == AddFieldsAt(fcache, RecordLocation(qs), qs.registry_fields,
                              adds)
       IN  /\ fcache' = res.cache
           /\ nested' = [nested EXCEPT ![label].qs.registry_fields = res.fields,
                                       ![label].readsDone = @ \cup {item}]
    /\ UNCHANGED <<readSet, query, readsDone, runs, startTriple, stable,
                   expected, manual, lastGet, added, raceVars, deferVars,
                   locVars, csvVars, confVars, backendVars>>

\* a registry in which earlier runs of the call site left `triple`: the adds
\* that make it, and the cache after them
AddsOf(triple) ==
    UNION { { <<SiteLocation, i, f>> : f \in triple[i] } : i \in Indexes }

RegistryWith(triple) ==
    IF triple = FieldInitialValue THEN EmptyCache
    ELSE CacheSet(add_key(EmptyCache, FieldKeyListId, SiteLocation),
                  SiteLocation, triple)

\* the triples the rewrite passes are run with
PlanTriples ==
    { [i \in Indexes |-> CASE i = SELECT -> s [] i = PREFETCH -> p [] OTHER -> o] :
          s \in SUBSET {"owner", "editor"}, p \in SUBSET {"tags", "comments"},
          o \in {{}, {"title"}, {"title", "owner"}} }

\* what the call site asks of the query the passes are run on; to the
\* configurations of the runs it adds select_related('editor'), a join on a
\* nullable relation
PlanConfigs ==
    [select_related : {NoSelect, [mode |-> "all", names |-> {}],
                       [mode |-> "fields", names |-> {"owner"}],
                       [mode |-> "fields", names |-> {"editor"}]},
     prefetch_lookups : {<<>>, <<StringLookup("tags")>>},
     deferred_loading : {NoDeferral, [names |-> {"title"}, defer |-> TRUE],
                         [names |-> {"title"}, defer |-> FALSE]}]

\* one queryset of the call site, under either value of the optimization
\* flag, on a registry that holds any of the triples
InitPlan ==
    /\ \E t \in PlanTriples :
           /\ fcache = RegistryWith(t)
           /\ added = AddsOf(t)
           /\ startTriple = t
    /\ lastGet = <<>>
    /\ conf \in {cf \in Confs : cf.LOGGING = "True" /\ cf.DISABLE_LOGGING = "False"}
    /\ manual \in PlanConfigs
    /\ query = NoQuery
    /\ nested = NoNested
    /\ readSet = {}
    /\ readsDone = {}
    /\ runs = MaxRuns - 1
    /\ stable = FALSE
    /\ expected = {}

\* the triples the sub-results are fetched with
NestedTriples ==
    { [i \in Indexes |-> CASE i = SELECT -> {} [] i = PREFETCH -> p [] OTHER -> o] :
          p \in SUBSET {"tags", "comments"}, o \in {{}, {"title"}} }

\* one queryset of the call site whose registry names to-many relations
InitNest ==
    /\ \E t \in NestedTriples :
           /\ fcache = RegistryWith(t)
           /\ added = AddsOf(t)
           /\ startTriple = t
    /\ lastGet = <<>>
    /\ conf \in {cf \in Confs : cf.LIVE_OPTIMIZATION = "True"}
    /\ manual \in {m \in ManualConfigs : /\ m.select_related = NoSelect
                                         /\ m.deferred_loading = NoDeferral}
    /\ query = NoQuery
    /\ nested = NoNested
    /\ readSet \in SUBSET {"title", "comments"}
    /\ readsDone = {}
    /\ runs = MaxRuns - 1
    /\ stable = FALSE
    /\ expected = {}

\* the triples the observer is run with
ObservedTriples ==
    { [i \in Indexes |-> CASE i = SELECT -> {} [] i = PREFETCH -> p [] OTHER -> o] :
          p \in {{}, {"tags"}}, o \in {{}, {"title"}, {"owner"}} }

MaxReads == 2

\* one queryset of the call site whose records have up to MaxReads of their
\* attributes read, under any value of the observation flags
InitObserve ==
    /\ \E t \in ObservedTriples :
           /\ fcache = RegistryWith(t)
           /\ added = AddsOf(t)
           /\ startTriple = t
    /\ lastGet = <<>>
    /\ conf \in {cf \in Confs : cf.LIVE_OPTIMIZATION = "True"}
    /\ manual \in {m \in ManualConfigs : /\ m.select_related = NoSelect
                                         /\ m.deferred_loading.defer}
    /\ query = NoQuery
    /\ nested = NoNested
    /\ readSet \in {S \in SUBSET AttrNames : Cardinality(S) <= MaxReads}
    /\ readsDone = {}
    /\ runs = MaxRuns - 1
    /\ stable = FALSE
    /\ expected = {}

-----------------------------------------------------------------------------
(* QuerySetLocation: the call site of a queryset, read off the call stack. *)

\* django_settings.BASE_DIR
BASE_DIR == "/srv/shop"

\* files of the application (their paths contain BASE_DIR) and of libraries
AppFiles == {"/srv/shop/catalog/views.py", "/srv/shop/catalog/reports.py"}
LibFiles == {"/usr/lib/python3/site-packages/django/db/models/manager.py",
             "/usr/lib/python3/site-packages/rest_framework/views.py"}

\* `django_settings.BASE_DIR in s[1]`
InBaseDir(file) == file \in AppFiles

\* frames a stack is made of: file (s[1]), function (s[3]) and the source
\* line being executed (code_context[index]), the line as a list of words
Frames ==
    { [file |-> "/srv/shop/catalog/views.py", function |-> "index",
       line |-> <<"books", "=", "Book.objects.all()">>],
      [file |-> "/srv/shop/catalog/views.py", function |-> "BookList",
       line |-> <<"class", "BookList(ListView):">>],
      [file |-> "/srv/shop/catalog/reports.py", function |-> "monthly",
       line |-> <<"return", "Book.objects.filter(sold=True)">>],
      [file |-> "/usr/lib/python3/site-packages/django/db/models/manager.py",
       function |-> "get_queryset",
       line |-> <<"return", "self._queryset_class(model=self.model)">>],
      [file |-> "/usr/lib/python3/site-packages/rest_framework/views.py",
       function |-> "dispatch",
       line |-> <<"response", "=", "handler(request)">>] }

MaxStack == 3

\* inspect.stack(): the innermost frame first
Stacks == UNION { [1..n -> Frames] : n \in 1..MaxStack }

\* the outcome of `[...][0]` on an empty list
IndexError == "IndexError"

\* QuerySetLocation.get_source: the frames of the innermost application
\* file, or the IndexError of `[...][0]` when no frame is the application's
get_source(st) ==
    LET inApp == SelectSeq(st, LAMBDA s : InBaseDir(s.file))
    IN  IF inApp = <<>>
        THEN [raised |-> IndexError, frames |-> <<>>]
        ELSE [raised |-> "none",
              frames |-> SelectSeq(st, LAMBDA s : s.file = inApp[1].file)]

\* QuerySetLocation.get_file:
\*   filename.replace(BASE_DIR, '.').replace('.py', '')
get_file(source) ==
    CASE source[1].file = "/srv/shop/catalog/views.py" -> "./catalog/views"
      [] source[1].file = "/srv/shop/catalog/reports.py" -> "./catalog/reports"
      [] OTHER -> source[1].file

Reverse(s) == [n \in 1..Len(s) |-> s[Len(s) + 1 - n]]

\* QuerySetLocation.get_scope: the functions of the file's frames, outermost
\* first (joined with '.')
get_scope(source) ==
    LET own == SelectSeq(source, LAMBDA s : s.file = source[1].file)
    IN  Reverse([n \in 1..Len(own) |-> own[n].function])

LastIndexOf(line, w) ==
    CHOOSE n \in 1..Len(line) :
        line[n] = w /\ \A m \in (n + 1)..Len(line) : line[m] # w

FirstIndexOf(line, w) ==
    CHOOSE n \in 1..Len(line) :
        line[n] = w /\ \A m \in 1..(n - 1) : line[m] # w

\* line.split(prefix)[-1]
AfterLast(line, w) ==
    IF InList(w, line)
    THEN SubSeq(line, LastIndexOf(line, w) + 1, Len(line))
    ELSE line

\* line.split(postfix)[0]
BeforeFirst(line, w) ==
    IF InList(w, line) THEN SubSeq(line, 1, FirstIndexOf(line, w) - 1) ELSE line

\* QuerySetLocation.get_variable: __extract_name_from_line of the innermost
\* frame's line
get_variable(source) ==
    BeforeFirst(AfterLast(AfterLast(source[1].line, "class"), "def"), "=")

\* QuerySetLocation.get_type: qs.model.__name__.lower()
get_type(model) == IF model = "Book" THEN "book" ELSE model

NoLocation == [type |-> "", file |-> "", scope |-> <<>>, variable |-> <<>>]

NotLocated == [raised |-> "", location |-> NoLocation]

\* QuerySetLocation.__init__ on the stack `st` for a queryset of `model`
QuerySetLocation(st, model) ==
    LET source == get_source(st)
    IN  IF source.raised = IndexError
        THEN [raised |-> IndexError, location |-> NoLocation]
        ELSE [raised |-> "none",
              location |-> [type |-> get_type(model),
                            file |-> get_file(source.frames),
                            scope |-> get_scope(source.frames),
                            variable |-> get_variable(source.frames)]]

InitLocation ==
    /\ stack = <<>>
    /\ located = NotLocated

\* a queryset is about to be built under any call stack
InitStack ==
    /\ stack \in Stacks
    /\ located = NotLocated

\* the location of the queryset built under the stack
Locate ==
    /\ stack # <<>>
    /\ located = NotLocated
    /\ located' = QuerySetLocation(stack, "Book")
    /\ UNCHANGED <<stack, regVars, raceVars, deferVars, queryVars, csvVars, confVars, backendVars>>

-----------------------------------------------------------------------------
(* Registry.to_csv / from_csv.  Text is a sequence of characters, a field   *)
(* name or a key standing for the characters that spell it.                 *)

\* repr() of a field name
Repr(name) == <<"'", name, "'">>

RECURSIVE ListItems(_)
ListItems(l) ==
    IF l = <<>> THEN <<>>
    ELSE IF Len(l) = 1 THEN Repr(l[1])
    ELSE Repr(l[1]) \o <<",", " ">> \o ListItems(Tail(l))

\* str() of a list of names, which csv.writer writes for a cell holding one
ListText(l) == <<"[">> \o ListItems(l) \o <<"]">>

\* the text of a key cell
KeyText(k) == IF k = "" THEN <<>> ELSE <<k>>

\* the orders in which a process may iterate over sets of names
Orders(S) ==
    { r \in [1..Cardinality(S) -> S] : \A a \in S : \E n \in DOMAIN r : r[n] = a }

\* list(s) for a set s, iterated in the order `rank`
ListOf(s, rank) == SelectSeq(rank, LAMBDA a : a \in s)

\* FieldRegistry.pair_to_row:
\*   [key, list(value[0]), list(value[1]), list(value[2])]
pair_to_row(key, value, rank) ==
    [key |-> key,
     lists |-> <<ListOf(value[SELECT], rank), ListOf(value[PREFETCH], rank),
                 ListOf(value[OnlyIndex], rank)>>]

\* csv.writer with QUOTE_MINIMAL, mutated: no field is quoted
csv_field_unquoted(text) == text

\* csv.writer with QUOTE_MINIMAL: a field that holds the delimiter or the
\* quote character is written between quote characters
csv_field(text) ==
    IF InList(",", text) \/ InList("\"", text)
    THEN <<"\"">> \o text \o <<"\"">>
    ELSE text

\* writer.writerow(row): the fields joined by the delimiter
writerow(row) ==
    csv_field(KeyText(row.key)) \o <<",">> \o
    csv_field(ListText(row.lists[1])) \o <<",">> \o
    csv_field(ListText(row.lists[2])) \o <<",">> \o
    csv_field(ListText(row.lists[3]))

\* the order of str on the keys in use
KeyOrder == <<EmptyLocation, "views::Comment::2", "views::Report::1">>

RECURSIVE SortedBy(_, _)
SortedBy(list, order) ==
    IF order = <<>> THEN <<>>
    ELSE SelectSeq(list, LAMBDA k : k = Head(order))
             \o SortedBy(list, Tail(order))

\* sorted(self.get_keys())
sorted(list) == SortedBy(list, KeyOrder)

\* Registry.to_csv: one line per key of the key list, in sorted order
to_csv(c, rank) ==
    LET keys == sorted(get_keys(c, FieldKeyListId))
    IN  [n \in 1..Len(keys) |->
            writerow(pair_to_row(keys[n], FieldGet(c, keys[n]), rank))]

\* csv.reader on one line: the delimiter splits outside quotes, the quote
\* characters are dropped
RECURSIVE ReadCells(_, _, _)
ReadCells(line, cell, quoted) ==
    IF line = <<>> THEN <<cell>>
    ELSE IF Head(line) = "\"" THEN ReadCells(Tail(line), cell, ~quoted)
    ELSE IF Head(line) = "," /\ ~quoted
         THEN <<cell>> \o ReadCells(Tail(line), <<>>, FALSE)
    ELSE ReadCells(Tail(line), Append(cell, Head(line)), quoted)

csv_reader(line) == ReadCells(line, <<>>, FALSE)

\* the items of a list literal: quoted names separated by ", "
RECURSIVE EvalItems(_)
EvalItems(t) ==
    IF t = <<>> THEN [ok |-> TRUE, items |-> <<>>]
    ELSE IF Len(t) >= 3 /\ t[1] = "'" /\ t[3] = "'" /\ t[2] \in Names
    THEN IF Len(t) = 3 THEN [ok |-> TRUE, items |-> <<t[2]>>]
         ELSE IF Len(t) >= 6 /\ t[4] = "," /\ t[5] = " "
         THEN LET more == EvalItems(SubSeq(t, 6, Len(t)))
              IN  [ok |-> more.ok, items |-> <<t[2]>> \o more.items]
         ELSE [ok |-> FALSE, items |-> <<>>]
    ELSE [ok |-> FALSE, items |-> <<>>]

\* ast.literal_eval on the text of a cell
literal_eval(text) ==
    IF Len(text) >= 2 /\ text[1] = "[" /\ text[Len(text)] = "]"
    THEN EvalItems(SubSeq(text, 2, Len(text) - 1))
    ELSE [ok |-> FALSE, items |-> <<>>]

\* set(list)
SetOf(l) == { l[n] : n \in DOMAIN l }

\* FieldRegistry.row_to_pair:
\*   select, prefetch, only = [ast.literal_eval(r) for r in row[1:]]
\*   return row[0], (set(select), set(prefetch), set(only))
row_to_pair(row) ==
    IF Len(row) # 4 THEN [ok |-> FALSE, key |-> "", value |-> FieldInitialValue]
    ELSE LET ev == [i \in Indexes |-> literal_eval(row[i + 2])]
         IN  [ok |-> \A i \in Indexes : ev[i].ok,
              key |-> IF row[1] = <<>> THEN "" ELSE row[1][1],
              value |-> [i \in Indexes |-> SetOf(ev[i].items)]]

\* the loop of from_csv: add_key(key); cache.set(key, val), row after row,
\* until a row raises
RECURSIVE LoadRows(_, _)
LoadRows(c, lines) ==
    IF lines = <<>> THEN [raised |-> FALSE, cache |-> c]
    ELSE LET pair == row_to_pair(csv_reader(Head(lines)))
         IN  IF ~pair.ok THEN [raised |-> TRUE, cache |-> c]
             ELSE LoadRows(CacheSet(add_key(c, FieldKeyListId, pair.key),
                                    pair.key, pair.value),
                           Tail(lines))

\* Registry.from_csv
from_csv(c, lines, clear) == LoadRows(IF clear THEN EmptyCache ELSE c, lines)

NoFile == [written |-> FALSE, lines |-> <<>>]

FreshRegistry == [loaded |-> FALSE, raised |-> FALSE, cache |-> EmptyCache]

InitCsv ==
    /\ csvFile = NoFile
    /\ target = FreshRegistry

\* field_registry.to_csv(filepath)
ToCsv ==
    /\ ~csvFile.written
    /\ \E rank \in Orders(Names) :
           csvFile' = [written |-> TRUE, lines |-> to_csv(fcache, rank)]
    /\ UNCHANGED <<target, regVars, raceVars, deferVars, queryVars, locVars,
                   confVars, backendVars>>

\* from_csv(filepath, clear) on a fresh, empty registry
FromCsv(clear) ==
    /\ csvFile.written
    /\ ~target.loaded
    /\ LET res == from_csv(target.cache, csvFile.lines, clear)
       IN  target' = [loaded |-> TRUE, raised |-> res.raised,
                      cache |-> res.cache]
    /\ UNCHANGED <<csvFile, regVars, raceVars, deferVars, queryVars, locVars,
                   confVars, backendVars>>

\* field_registry.add before the export is made
AddBeforeExport(k, index, field) ==
    /\ ~csvFile.written
    /\ Add(k, index, field)

-----------------------------------------------------------------------------
(* PersistentLocMemCache / PersistentFileBasedCache: the cache backends of  *)
(* the framework with culling and expiry overridden.                        *)

BackendKinds == {"PersistentLocMemCache", "PersistentFileBasedCache"}

\* time.time() when the backend is made; timeouts are small next to it
Epoch == 1000

\* how far the clock advances
MaxTicks == 2

\* timeout=None: the entry never expires
Never == [never |-> TRUE, secs |-> 0]

Seconds(n) == [never |-> FALSE, secs |-> n]

\* timeout=DEFAULT_TIMEOUT: the TIMEOUT of the cache parameters is used
DefaultTimeout == [never |-> FALSE, secs |-> 300]

\* the parameters a cache may be configured with
BackendParams ==
    [TIMEOUT : {Never, Seconds(0), Seconds(1)},
     MAX_ENTRIES : {1, 2},
     CULL_FREQUENCY : {0, 2}]

CacheKeys == {"k1", "k2"}
CacheValues == {"v1", "v2"}

\* the timeouts a caller may pass to cache.set
CallTimeouts == {DefaultTimeout, Never, Seconds(0), Seconds(1)}

\* BaseCache.get_backend_timeout: the expiry stored with an entry
get_backend_timeout(timeout, params, now) ==
    LET t == IF timeout = DefaultTimeout THEN params.TIMEOUT ELSE timeout
    IN  IF t.never THEN [never |-> TRUE, at |-> 0]
        ELSE [never |-> FALSE, at |-> now + (IF t.secs = 0 THEN -1 ELSE t.secs)]

\* _cull of the base classes: with cull frequency 0 the cache is cleared,
\* otherwise one entry in every CULL_FREQUENCY is deleted
cull_base(entries, params) ==
    IF Cardinality(DOMAIN entries) < params.MAX_ENTRIES THEN entries
    ELSE IF params.CULL_FREQUENCY = 0 THEN EmptyCache
    ELSE LET doomed == CHOOSE k \in DOMAIN entries : TRUE
         IN  CacheDelete(entries, doomed)

\* PersistentLocMemCache._cull / PersistentFileBasedCache._cull: pass
cull(entries, params) == entries

\* PersistentLocMemCache._has_expired: no expiry is recorded for the key;
\* PersistentFileBasedCache._is_expired: False for every file there is
has_expired(kind, entries, key, now) ==
    IF kind = "PersistentLocMemCache"
    THEN \/ key \notin DOMAIN entries
         \/ ~entries[key].exp.never /\ entries[key].exp.at = -1
    ELSE key \notin DOMAIN entries

\* cache.set(key, value, timeout): room is made by _cull, then the entry is
\* written with its expiry
backend_set(b, key, value, timeout) ==
    [b EXCEPT !.entries =
         CacheSet(cull(@, b.params), key,
                  [value |-> value,
                   exp |-> get_backend_timeout(timeout, b.params, b.now)])]

\* cache.get(key): the value, unless the entry is taken as expired
backend_get(b, key) ==
    IF has_expired(b.kind, b.entries, key, b.now)
    THEN [key |-> key, hit |-> FALSE, value |-> ""]
    ELSE [key |-> key, hit |-> TRUE, value |-> b.entries[key].value]

NoBackend ==
    [kind |-> "PersistentFileBasedCache",
     params |-> [TIMEOUT |-> DefaultTimeout, MAX_ENTRIES |-> 300,
                 CULL_FREQUENCY |-> 3],
     entries |-> EmptyCache, now |-> Epoch]

NotGot == [key |-> "", hit |-> FALSE, value |-> ""]

InitBackend ==
    /\ backend = NoBackend
    /\ written = EmptyCache
    /\ got = NotGot

\* backend_cls(location, params) for either class and any parameters
InitAnyBackend ==
    /\ \E kind \in BackendKinds, params \in BackendParams :
           backend = [kind |-> kind, params |-> params,
                      entries |-> EmptyCache, now |-> Epoch]
    /\ written = EmptyCache
    /\ got = NotGot

BackendSet(key, value, timeout) ==
    /\ backend' = backend_set(backend, key, value, timeout)
    /\ written' = CacheSet(written, key, value)
    /\ got' = NotGot
    /\ UNCHANGED <<regVars, raceVars, deferVars, queryVars, locVars, csvVars,
                   confVars>>

BackendGet(key) ==
    /\ got' = backend_get(backend, key)
    /\ UNCHANGED <<backend, written, regVars, raceVars, deferVars, queryVars,
                   locVars, csvVars, confVars>>

\* cache.delete(key)
BackendDelete(key) ==
    /\ key \in DOMAIN backend.entries
    /\ backend' = [backend EXCEPT !.entries = CacheDelete(@, key)]
    /\ written' = CacheDelete(written, key)
    /\ got' = NotGot
    /\ UNCHANGED <<regVars, raceVars, deferVars, queryVars, locVars, csvVars,
                   confVars>>

\* cache.clear()
BackendClear ==
    /\ backend.entries # EmptyCache
    /\ backend' = [backend EXCEPT !.entries = EmptyCache]
    /\ written' = EmptyCache
    /\ got' = NotGot
    /\ UNCHANGED <<regVars, raceVars, deferVars, queryVars, locVars, csvVars,
                   confVars>>

\* time passes
Tick ==
    /\ backend.now < Epoch + MaxTicks
    /\ backend' = [backend EXCEPT !.now = @ + 1]
    /\ got' = NotGot
    /\ UNCHANGED <<written, regVars, raceVars, deferVars, queryVars, locVars,
                   csvVars, confVars>>

-----------------------------------------------------------------------------
(* Specifications.                                                          *)

\* Sequential use of the field registry
Init ==
    /\ InitRegistry /\ InitRace /\ InitDeferred /\ InitQuery
    /\ InitLocation /\ InitCsv /\ InitConf /\ InitBackend

Next ==
    \/ \E k \in Locations, i \in Indexes, f \in Names : Add(k, i, f)
    \/ \E k \in Locations : Get(k)

Spec == Init /\ [][Next]_vars

\* Worker processes racing on the field registry
InitConcurrent ==
    /\ InitRegistry /\ InitWriters /\ InitDeferred /\ InitQuery
    /\ InitLocation /\ InitCsv /\ InitConf /\ InitBackend

NextConcurrent ==
    \/ \E w \in Writers, k \in Locations, p \in WriterFields :
           WriterGet(w, k, p[1], p[2])
    \/ \E w \in Writers : WriterCheckKey(w)
    \/ \E w \in Writers : WriterAddKeyRead(w)
    \/ \E w \in Writers : WriterAddKeyWrite(w)
    \/ \E w \in Writers : WriterSet(w)

SpecConcurrent == InitConcurrent /\ [][NextConcurrent]_vars

\* Sequential calls in which some carry the empty location of a call site
\* that cannot be attributed
InitUnattributed ==
    /\ InitRegistry /\ InitRace /\ InitDeferred /\ InitQuery
    /\ InitLocation /\ InitCsv /\ InitConf /\ InitBackend

NextUnattributed ==
    \/ \E k \in {SiteLocation, EmptyLocation}, i \in Indexes, f \in Names :
           Add(k, i, f)
    \/ \E k \in {SiteLocation, EmptyLocation} : Get(k)

SpecUnattributed == InitUnattributed /\ [][NextUnattributed]_vars

\* Querysets built under every call stack of at most MaxStack frames
InitLocate ==
    /\ InitRegistry /\ InitRace /\ InitDeferred /\ InitQuery
    /\ InitStack /\ InitCsv /\ InitConf /\ InitBackend

NextLocate == Locate

SpecLocate == InitLocate /\ [][NextLocate]_vars

\* A registry filled by sequential adds, exported, and the file imported
\* into a fresh registry
InitCsvRoundTrip ==
    /\ InitRegistry /\ InitRace /\ InitDeferred /\ InitQuery
    /\ InitLocation /\ InitCsv /\ InitConf /\ InitBackend

NextCsvRoundTrip ==
    \/ \E k \in Locations, i \in Indexes, f \in Names : AddBeforeExport(k, i, f)
    \/ ToCsv
    \/ \E clear \in BOOLEAN : FromCsv(clear)

SpecCsvRoundTrip == InitCsvRoundTrip /\ [][NextCsvRoundTrip]_vars

\* A caller that uses delayed_atomic blocks
InitDelayed ==
    /\ InitRegistry /\ InitRace /\ InitDeferred /\ InitQuery
    /\ InitLocation /\ InitCsv /\ InitConf /\ InitBackend

NextDelayed ==
    \/ Enter
    \/ \E r \in Records : Save(r)
    \/ \E r \in Records, how \in {"attribute", "coerce"} : ReadPk(r, how)
    \/ \E path \in ExitPaths : Exit(path)

SpecDelayed == InitDelayed /\ [][NextDelayed]_vars

\* A caller that assigns to its records between save() and the flush
InitSnapshot ==
    /\ InitRegistry /\ InitRace /\ InitDeferred /\ InitQuery
    /\ InitLocation /\ InitCsv /\ InitConf /\ InitBackend

NextSnapshot ==
    \/ Enter
    \/ \E r \in Records : Save(r)
    \/ \E r \in Records : Assign(r)
    \/ \E path \in ExitPaths : Exit(path)

SpecSnapshot == InitSnapshot /\ [][NextSnapshot]_vars

\* A caller that queries a deferred model while its saves are pending
InitEvaluated ==
    /\ InitRegistry /\ InitRace /\ InitDeferred /\ InitQuery
    /\ InitLocation /\ InitCsv /\ InitConf /\ InitBackend

NextEvaluated ==
    \/ Enter
    \/ \E r \in Records : Save(r)
    \/ \E m \in OptimizedModels, op \in EvalOps : Evaluate(m, op)
    \/ \E path \in ExitPaths : Exit(path)

SpecEvaluated == InitEvaluated /\ [][NextEvaluated]_vars

\* A call site that runs its query again and again
InitRuns ==
    /\ InitRegistry /\ InitRace /\ InitDeferred /\ InitSite
    /\ InitLocation /\ InitCsv /\ InitConf /\ InitBackend

NextRuns ==
    \/ BuildQuery
    \/ FetchAll
    \/ \E item \in FieldNames : ReadField(item)

SpecRuns == InitRuns /\ [][NextRuns]_vars

\* One queryset: built, projected or not, fetched, and fetched again
InitPlanned ==
    /\ InitRace /\ InitDeferred /\ InitPlan /\ InitLocation /\ InitCsv
    /\ InitBackend

NextPlanned ==
    \/ BuildQuery
    \/ \E kind \in Projections : Values(kind)
    \/ FetchAll
    \/ FetchAgain

SpecPlanned == InitPlanned /\ [][NextPlanned]_vars

\* One queryset whose records are read, with the observer on or off
InitObserved ==
    /\ InitRace /\ InitDeferred /\ InitObserve /\ InitLocation /\ InitCsv
    /\ InitBackend

NextObserved ==
    \/ BuildQuery
    \/ FetchAll
    \/ \E item \in AttrNames : ReadField(item)

SpecObserved == InitObserved /\ [][NextObserved]_vars

\* One queryset whose records and batch-fetched sub-records are read
InitNested ==
    /\ InitRace /\ InitDeferred /\ InitNest /\ InitLocation /\ InitCsv
    /\ InitBackend

NextNested ==
    \/ BuildQuery
    \/ FetchAll
    \/ \E item \in FieldNames : ReadField(item)
    \/ \E label \in {"tags", "comments"}, item \in NestedColumns :
           ReadNested(label, item)

SpecNested == InitNested /\ [][NextNested]_vars

\* Callers of a persistent backend while time passes
InitPersistent ==
    /\ InitRegistry /\ InitRace /\ InitDeferred /\ InitQuery
    /\ InitLocation /\ InitCsv /\ InitConf /\ InitAnyBackend

NextPersistent ==
    \/ \E k \in CacheKeys, v \in CacheValues, t \in CallTimeouts :
           BackendSet(k, v, t)
    \/ \E k \in CacheKeys : BackendGet(k)
    \/ \E k \in CacheKeys : BackendDelete(k)
    \/ BackendClear
    \/ Tick

SpecPersistent == InitPersistent /\ [][NextPersistent]_vars

-----------------------------------------------------------------------------
(* Properties.                                                              *)

\* C1: in a sequential run of add and get calls no stored set of a location
\* ever loses a name, and a get made after add(location, index, name)
\* returns a triple whose set under that index contains name.
C1_UnionMonotone ==
    /\ [](lastGet # <<>> =>
            \A a \in added :
                a[1] = lastGet[1] => a[3] \in lastGet[2][a[2]])
    /\ [][\A k \in Locations, i \in Indexes :
              StoredSet(fcache, k, i) \subseteq StoredSet(fcache', k, i)]_vars

\* a get that follows two adds to different sets of its location
C1_Witness ==
    /\ lastGet # <<>>
    /\ \E a, b \in added :
           /\ a[1] = lastGet[1] /\ b[1] = lastGet[1] /\ a[2] # b[2]
           /\ a[3] \in lastGet[2][a[2]] /\ b[3] \in lastGet[2][b[2]]

\* C2: under every interleaving of concurrent adds, every name that a writer
\* has stored under a key stays stored under it.
C2_NoStoredNameLost ==
    \A a \in added : a[4] \in StoredSet(fcache, a[2], a[3])

\* the field kinds of a set of names
ToOneOf(F) == {f \in F : ToOne(f)}
ToManyOf(F) == {f \in F : ToMany(f)}
PlainOf(F) == {f \in F : ~IsRelation(f)}

\* C3: once a complete run of the call site has left the stored triple of
\* its location unchanged, the triple is exactly readSet partitioned by field
\* kind (to-one in select, to-many in prefetch, plain columns in only), and
\* the query of the next run carries exactly the eager joins, batch fetches
\* and plain columns of readSet.
C3_ConvergesToPartition ==
    (stable /\ manual = NoManual) =>
        /\ StoredSet(fcache, SiteLocation, SELECT) = ToOneOf(readSet)
        /\ StoredSet(fcache, SiteLocation, PREFETCH) = ToManyOf(readSet)
        /\ StoredSet(fcache, SiteLocation, OnlyIndex) = PlainOf(readSet)
        /\ query.phase = "fetched" =>
               /\ query.select_related.names = ToOneOf(readSet)
               /\ prefetch_lookup_names(query) = ToManyOf(readSet)
               /\ PlainOf(query.deferred_loading.names) = PlainOf(readSet)

\* C4: starting from an empty triple, when the reads of a fetch are over the
\* registry holds every to-one relation that was read uncached in select and
\* every to-many relation that was read in prefetch, and the query of the
\* next run carries an eager join, respectively a batch fetch, for each of
\* them before any field of its results is read.
C4_ReadRelationsCarriedOver ==
    manual = NoManual =>
    /\ (query.phase = "fetched" /\ readsDone = readSet) =>
           /\ ToOneOf(expected) \subseteq StoredSet(fcache, SiteLocation, SELECT)
           /\ ToManyOf(expected) \subseteq StoredSet(fcache, SiteLocation, PREFETCH)
    /\ (runs >= 1 /\ query.phase = "fetched" /\ readsDone = {}) =>
           /\ ToOneOf(expected) \subseteq query.select_related.names
           /\ ToManyOf(expected) \subseteq prefetch_lookup_names(query)

\* the fetch of the current query applies a column restriction
RestrictingFetch ==
    /\ query.phase = "built" /\ query'.phase = "fetched"
    /\ query.registry_fields[OnlyIndex] # {}

C15_WildcardUntouched ==
    [][(/\ query.phase = "built" /\ query'.phase = "fetched"
        /\ query.select_related.mode = "all"
        /\ query.registry_fields[SELECT] # {})
           => query'.select_related = query.select_related]_vars

\* a wildcard query fetched while the registry holds a select set
C15_Witness ==
    /\ query.phase = "fetched"
    /\ query.select_related.mode = "all"
    /\ query.registry_fields[SELECT] # {}
    /\ readsDone = {}

\* C16: in every state that another process can see, a location key holds
\* a value in the backing store exactly when it is in the key index.
C16_IndexMatchesStore ==
    \A k \in Locations :
        CacheHas(fcache, k) <=> InList(k, get_keys(fcache, FieldKeyListId))

\* C18: FieldRegistry.add with the empty location writes nothing: no entry
\* is stored under it and the key index does not hold it.
C18_EmptyLocationNotStored ==
    /\ ~CacheHas(fcache, EmptyLocation)
    /\ ~InList(EmptyLocation, get_keys(fcache, FieldKeyListId))

\* C17, as claimed: after a get the key of the get holds a value in the
\* backing store and is in the key index.
C17_GetPersistsEmptyTriple ==
    lastGet # <<>> =>
        /\ CacheHas(fcache, lastGet[1])
        /\ InList(lastGet[1], get_keys(fcache, FieldKeyListId))

\* C17, amended: a get returns the stored triple, or the empty triple when
\* nothing is stored, and leaves the backing store and the key index as they
\* were; the key index never holds a key twice.
C17_GetReadsOnly ==
    /\ [][lastGet' # <<>> =>
              /\ fcache' = fcache
              /\ lastGet'[2] = IF lastGet'[1] \in DOMAIN fcache
                               THEN fcache[lastGet'[1]]
                               ELSE [i \in Indexes |-> {}]]_vars
    /\ [](\A k \in Locations :
             Cardinality({n \in 1..Len(get_keys(fcache, FieldKeyListId)) :
                             get_keys(fcache, FieldKeyListId)[n] = k}) <= 1)

\* a get of a key without an entry, made while the other key has one
C17_Witness ==
    /\ lastGet # <<>>
    /\ lastGet[2] = [i \in Indexes |-> {}]
    /\ ~CacheHas(fcache, lastGet[1])
    /\ \E k \in Locations : CacheHas(fcache, k)

\* a read of the primary key of a record that _delayed_save has gathered
GatheredRead(r) ==
    /\ lastOp'.op = "read" /\ lastOp'.rec = r
    /\ pk[r] = "deferred" \/ forced[r] >= 1

\* C5: inside an active scope, the first read of the primary key of a record
\* created by save() makes exactly one single-row insert of it, and every
\* read returns the concrete key with no further insert.
C5_ReadInsertsExactlyOnce ==
    [][\A r \in Records :
          (depth >= 1 /\ GatheredRead(r))
              => (lastOp'.result = "key" /\ forced'[r] = 1)]_vars

\* C6: force-resolving the placeholder of one record removes that record's
\* copy from the pending lists and leaves every other copy pending.
C6_OnlyOwnCopyRemoved ==
    [][\A r \in Records :
          (forced'[r] = forced[r] + 1)
              => \A m \in Models :
                     Pending(mcache', m) =
                         SelectSeq(Pending(mcache, m), LAMBDA o : o.rec # r)]_vars

\* the step in which DelayedAtomic.__exit__ reaches the bulk flush
FlushStep == depth' = depth - 1 /\ lastOp'.result = "flushed"

CallsFor(calls, op, m) ==
    SelectSeq(calls, LAMBDA c : c.op = op /\ c.model = m)

\* one call of kind `op` for model m, whose objects are the records `recs`
OneCallWith(calls, op, m, recs) ==
    /\ Len(CallsFor(calls, op, m)) = 1
    /\ RecsOf(CallsFor(calls, op, m)[1].objs) = recs

GatheredOf(m) == {c \in gathered : ModelOf(c.rec) = m}

\* C8, as claimed: with no placeholder force-resolved, the flush makes for
\* each model with pending records one bulk_create with exactly the records
\* that had no primary key before save and one bulk_update with exactly those
\* that had one, and leaves nothing pending.
C8_FlushPartitionByKey ==
    [][(FlushStep /\ resolved = {}) =>
          /\ \A m \in Models :
                 GatheredOf(m) # {} =>
                     /\ OneCallWith(lastFlush', "bulk_create", m,
                            {c.rec : c \in {d \in GatheredOf(m) : d.pk = "none"}})
                     /\ OneCallWith(lastFlush', "bulk_update", m,
                            {c.rec : c \in {d \in GatheredOf(m) : d.pk # "none"}})
          /\ \A m \in Models : Pending(mcache', m) = <<>>]_vars

\* C8, amended: the two calls split the pending records by _state.adding at
\* the time of save: bulk_create gets exactly the records being added,
\* bulk_update exactly the others.
C8_FlushPartitionByState ==
    [][(FlushStep /\ resolved = {}) =>
          /\ \A m \in Models :
                 GatheredOf(m) # {} =>
                     /\ OneCallWith(lastFlush', "bulk_create", m,
                            {c.rec : c \in {d \in GatheredOf(m) : d.adding}})
                     /\ OneCallWith(lastFlush', "bulk_update", m,
                            {c.rec : c \in {d \in GatheredOf(m) : ~d.adding}})
          /\ \A m \in Models : Pending(mcache', m) = <<>>]_vars

\* a flush, with nothing force-resolved, that made a non-empty bulk_create
\* and a non-empty bulk_update
C8_Witness ==
    /\ lastOp.op = "exit" /\ lastOp.result = "flushed"
    /\ \A r \in Records : forced[r] = 0
    /\ \E n, k \in 1..Len(lastFlush) :
           /\ lastFlush[n].op = "bulk_create" /\ lastFlush[n].objs # <<>>
           /\ lastFlush[k].op = "bulk_update" /\ lastFlush[k].objs # <<>>

\* C9: when __exit__ of a (single, properly entered) block is over, on any
\* path, Model.save is the original save and nothing is left pending.
C9_ExitRestoresAndFlushes ==
    [][(depth = 1 /\ depth' = 0 /\ defaultSaveSlot = "original") =>
          /\ saveMethod' = "original"
          /\ \A m \in Models : Pending(mcache', m) = <<>>]_vars

\* C10: a second activation is rejected: no block is ever active inside
\* another one, and while a block is active the slot holds the original save.
C10_NoDoubleActivation ==
    depth >= 1 => (depth = 1 /\ defaultSaveSlot = "original")

\* record r is saved by this step
SaveStep(r) ==
    /\ saves' = saves + 1
    /\ lastOp'.op = "save" /\ lastOp'.rec = r

\* C11: while a block is active, save() on a record that has a concrete
\* primary key writes immediately: the pending lists do not change and the
\* key of the record is not replaced by a placeholder.
C11_KeyedSaveWritesImmediately ==
    [][\A r \in Records :
          (depth >= 1 /\ pk[r] = "key" /\ SaveStep(r)) =>
              /\ lastOp'.result = "written"
              /\ \A m \in Models : Pending(mcache', m) = Pending(mcache, m)
              /\ pk'[r] = "key"]_vars

\* what a deferring save() of record r does: the four statements in their
\* order, the copy of the record as it was before the call is appended to
\* the pending list of its model, the key becomes a placeholder, and no row
\* is written
DeferredEffect(r) ==
    /\ events' = <<"pre_save", "registry_add", "set_placeholder", "post_save">>
    /\ Pending(mcache', ModelOf(r))
           = Append(Pending(mcache, ModelOf(r)),
                    [rec |-> r, pk |-> pk[r], adding |-> adding[r],
                     val |-> liveValue[r]])
    /\ \A m \in Models \ {ModelOf(r)} : Pending(mcache', m) = Pending(mcache, m)
    /\ pk'[r] = "deferred"
    /\ rows' = rows

\* C12, as claimed: while a block is active, save() on a record without a
\* primary key does pre_save, the append of the detached copy, the
\* placeholder, post_save, in this order, and writes nothing to storage.
C12_KeylessSaveDefers ==
    [][\A r \in Records :
          (depth = 1 /\ defaultSaveSlot = "original" /\ pk[r] = "none"
               /\ SaveStep(r))
              => DeferredEffect(r)]_vars

\* C12, amended: the same, for the records whose model's default manager
\* yields an OptimizerQuerySet.
C12_OptimizedSaveDefers ==
    [][\A r \in Records :
          (depth = 1 /\ defaultSaveSlot = "original" /\ pk[r] = "none"
               /\ ModelOf(r) \in OptimizedModels /\ SaveStep(r))
              => DeferredEffect(r)]_vars

\* a record without a key has been gathered by save() in an active block
C12_Witness ==
    /\ depth = 1
    /\ lastOp = [op |-> "save", rec |-> "r1", result |-> "gathered"]
    /\ pk["r1"] = "deferred" /\ rows["r1"] = 0
    /\ Len(Pending(mcache, ModelOf("r1"))) = 1

\* C13, as claimed: while a block is active, a create-save of a record of
\* any type is gathered and not written.
C13_EveryCreateGathered ==
    [][\A r \in Records :
          (depth = 1 /\ defaultSaveSlot = "original" /\ adding[r]
               /\ SaveStep(r))
              => (lastOp'.result = "gathered" /\ rows' = rows)]_vars

\* C13, amended: a create-save is gathered exactly when the model of the
\* record uses the optimized queryset; a record of any other model is
\* written at once by the original save and nothing is gathered for it.
C13_CreateGatheredIffOptimized ==
    [][\A r \in Records :
          (depth = 1 /\ defaultSaveSlot = "original" /\ adding[r]
               /\ SaveStep(r))
              => IF ModelOf(r) \in OptimizedModels
                 THEN lastOp'.result = "gathered" /\ rows' = rows
                 ELSE /\ lastOp'.result = "written"
                      /\ rows'[r] = rows[r] + 1
                      /\ mcache' = mcache]_vars

\* in one block, a record of an optimized model has been gathered and a
\* record of another model has been written
C13_Witness ==
    /\ depth = 1
    /\ lastOp = [op |-> "save", rec |-> "r5", result |-> "written"]
    /\ rows["r5"] = 1
    /\ Len(Pending(mcache, ModelOf("r1"))) = 1


\* C19: when no frame of the call stack is the application's, locating the
\* call site raises nothing and yields the empty location.
C19_NoFrameYieldsEmptyLocation ==
    (located # NotLocated /\ \A n \in DOMAIN stack : ~InBaseDir(stack[n].file))
        => (located.raised = "none" /\ located.location = NoLocation)

KeysOf(c) == SetOf(get_keys(c, FieldKeyListId))

\* C20: after to_csv and from_csv into a fresh registry, the import raised
\* nothing, every key of the original key list has in the new registry the
\* triple it had in the original one, and the new registry has no other key.
C20_CsvRoundTrip ==
    target.loaded =>
        /\ ~target.raised
        /\ \A k \in KeysOf(fcache) :
               /\ CacheHas(target.cache, k)
               /\ target.cache[k] = FieldGet(fcache, k)
        /\ KeysOf(target.cache) = KeysOf(fcache)
        /\ DOMAIN target.cache \ {FieldKeyListId} = KeysOf(fcache)

\* C20 witness: a registry of two keys listed out of sorted order, one of
\* them with two names under one index, has been exported and imported.
C20_Witness ==
    /\ target.loaded
    /\ Len(get_keys(fcache, FieldKeyListId)) = 2
    /\ get_keys(fcache, FieldKeyListId) # sorted(get_keys(fcache, FieldKeyListId))
    /\ \E k \in Locations, i \in Indexes : StoredSet(fcache, k, i) = Names


\* the plan of a query: eager joins, batch fetches, column restriction
Plan(q) == <<q.select_related, q.prefetch_lookups, q.deferred_loading>>

\* a fetch of the current query, which calls _optimize() on it
FetchStep ==
    /\ query.phase = "built"
    /\ query'.phase \in {"fetched", "raised"}

\* a fetch whose _optimize() runs the three passes
OptimizingFetch ==
    /\ FetchStep
    /\ query.fields = "None"
    /\ query.live_optimization

\* C21: _optimize on a query that holds results or has a values /
\* values_list projection changes nothing of the query, and the fetch of a
\* projected query leaves its plan as it was.
C21_GuardedOptimizeChangesNothing ==
    /\ []((query.result_cache # "None" \/ query.fields # "None")
             => optimize(query) = query)
    /\ [][(FetchStep /\ query.fields # "None") => Plan(query') = Plan(query)]_vars

\* C21 witness: a projected query was fetched while the optimization flag
\* was on and the registry held names for all three passes.
C21_Witness ==
    /\ query.phase = "fetched"
    /\ query.fields = "values"
    /\ query.live_optimization
    /\ \A i \in Indexes : query.registry_fields[i] # {}

\* C22: with the optimization flag off a fetched query has the plan the
\* caller gave it, and with the observation flag off (LOGGING false) the
\* records of a fetch are yielded as they are, no error is raised, and the
\* registry stays as it was before the query.
C22_FlagsGivePassThrough ==
    /\ (query.phase \in {"fetched", "raised"} /\ ~query.live_optimization
        /\ query.fields = "None")
           => Plan(query) = <<manual.select_related, manual.prefetch_lookups,
                              manual.deferred_loading>>
    /\ (query.phase \in {"fetched", "raised"} /\ conf.LOGGING = "False")
           => /\ query.phase = "fetched"
              /\ query.yielded = "plain"
              /\ FieldGet(fcache, SiteLocation) = startTriple

\* C24: the eager-join pass run with an empty select set leaves the eager
\* joins of the query as the caller set them.
C24_EmptySelectKeepsManualJoins ==
    [][(OptimizingFetch /\ query.registry_fields[SELECT] = {})
          => query'.select_related = query.select_related]_vars

\* the places of the directives of `lookups` whose through-name is `name`
DirectivesFor(lookups, name) ==
    { n \in DOMAIN lookups : lookups[n].through = name }

\* C25: after the batch-fetch pass every name of the prefetch set has
\* exactly one directive; the directives the query had are all kept, in
\* place, and each directive the pass added is for a name of the prefetch
\* set that had none and carries an optimizing queryset.
C25_OneDirectivePerPrefetchName ==
    [][OptimizingFetch =>
          LET before == query.prefetch_lookups
              after == query'.prefetch_lookups
          IN  /\ \A f \in query.registry_fields[PREFETCH] :
                     Cardinality(DirectivesFor(after, f)) = 1
              /\ Len(after) >= Len(before)
              /\ SubSeq(after, 1, Len(before)) = before
              /\ \A n \in (Len(before) + 1)..Len(after) :
                     /\ after[n].through \in query.registry_fields[PREFETCH]
                     /\ DirectivesFor(before, after[n].through) = {}
                     /\ IsSelective(after[n].queryset)]_vars

\* C25 witness: a fetch with two names in the prefetch set, one of which
\* the caller had asked for already.
C25_Witness ==
    /\ query.phase = "fetched"
    /\ query.fields = "None"
    /\ query.live_optimization
    /\ query.registry_fields[PREFETCH] = {"tags", "comments"}
    /\ manual.prefetch_lookups = <<StringLookup("tags")>>
    /\ Len(query.prefetch_lookups) = 2

\* the names of an earlier defer() taken out of `names`, or those of an
\* earlier only() put in
Reconciled(names, before) ==
    IF before.defer THEN names \ before.names ELSE names \cup before.names

\* the keys of an eager-join set that is not a wildcard
JoinKeys(q) == IF q.select_related.mode = "fields" THEN q.select_related.names ELSE {}

ObservedRead(item) ==
    /\ query.phase = "fetched"
    /\ query.yielded = "wrapped"
    /\ item \notin readsDone
    /\ readsDone' = readsDone \cup {item}

\* C27: a read of a plain column adds it to the only set exactly when the
\* only set was empty when the query was made, and a read of a relation
\* leaves the only set as it was.
C27_OnlyTakesPlainColumns ==
    [][\A item \in FieldNames :
          ObservedRead(item) =>
              IF IsRelation(item)
              THEN StoredSet(fcache', SiteLocation, OnlyIndex)
                       = StoredSet(fcache, SiteLocation, OnlyIndex)
              ELSE IF query.without_only
                   THEN StoredSet(fcache', SiteLocation, OnlyIndex)
                            = StoredSet(fcache, SiteLocation, OnlyIndex) \cup {item}
                   ELSE fcache' = fcache]_vars

\* C28: a read of a to-many relation adds its name to the prefetch set when
\* the query has no batch-fetch lookup of that name, and leaves the prefetch
\* set as it was when it has one.
C28_ToManyReadRecorded ==
    [][\A item \in FieldNames :
          (ObservedRead(item) /\ ToMany(item)) =>
              StoredSet(fcache', SiteLocation, PREFETCH) =
                  IF item \in prefetch_lookup_names(query)
                  THEN StoredSet(fcache, SiteLocation, PREFETCH)
                  ELSE StoredSet(fcache, SiteLocation, PREFETCH) \cup {item}]_vars

\* C29: a read of a name that is no field of the record's type, made on an
\* observed record, changes nothing in the registry, and the observer raises
\* what the read raises on a record without observer.
C29_UnknownNameIgnored ==
    /\ [][\A item \in AttrNames \ FieldNames :
             ObservedRead(item) =>
                 /\ fcache' = fcache
                 /\ query'.registry_fields = query.registry_fields]_vars
    /\ [](\A item \in AttrNames \ FieldNames :
             /\ instance_getattribute(query, item).adds = <<>>
             /\ instance_getattribute(query, item).raised
                    = object_getattribute(item))

\* C29 witness: a property of the class and a name that nothing defines
\* were read on an observed record of a location with an empty only set.
C29_Witness ==
    /\ query.phase = "fetched"
    /\ query.yielded = "wrapped"
    /\ query.without_only
    /\ readsDone = {"full_name", "missing"}


\* C23: on either persistent backend, under any timeout, max_entries and
\* cull_frequency, every key that was set and neither deleted nor cleared
\* since is in the backend, and a get of it answers the value last set.
C23_NeverEvictsNorExpires ==
    /\ \A k \in DOMAIN written :
           /\ k \in DOMAIN backend.entries
           /\ backend_get(backend, k) = [key |-> k, hit |-> TRUE, value |-> written[k]]
    /\ (got # NotGot /\ got.key \in DOMAIN written)
           => (got.hit /\ got.value = written[got.key])

\* C23 witness: a get answered a value whose expiry has passed, in a cache
\* that holds as many entries as max_entries allows.
C23_Witness ==
    /\ got.hit
    /\ ~backend.entries[got.key].exp.never
    /\ backend.entries[got.key].exp.at < backend.now
    /\ Cardinality(DOMAIN backend.entries) >= backend.params.MAX_ENTRIES + 1


\* C30: when a deferred scope has exited and flushed, no live record holds
\* a placeholder any more, and a read of a primary key made outside every
\* scope yields the key and inserts no row.
C30_PlaceholdersResolvedOnExit ==
    /\ []((lastOp.op = "exit" /\ lastOp.result = "flushed")
             => \A r \in Records : pk[r] # "deferred")
    /\ [][(depth = 0 /\ lastOp'.op = "read")
             => (lastOp'.result = "key" /\ rows' = rows)]_vars


\* the pending copies that the calls of a flush were given
FlushedCopies(calls) ==
    UNION { {calls[n].objs[m] : m \in 1..Len(calls[n].objs)} :
            n \in 1..Len(calls) }

\* C31: the row that a flush writes for a record saved in the scope holds
\* the column value the record had when save() was called, whatever the
\* caller assigned to the live record after that save.
C31_FlushWritesValuesOfSave ==
    [][FlushStep =>
          \A o \in FlushedCopies(lastFlush') :
              /\ o \in gathered
              /\ rowValue'[o.rec] = o.val]_vars

\* C31 witness: a flush wrote "old" for a record that the caller had set to
\* "new" after its save()
C31_Witness ==
    /\ lastOp.op = "exit" /\ lastOp.result = "flushed"
    /\ \E o \in FlushedCopies(lastFlush) :
           /\ o.val = "old"
           /\ liveValue[o.rec] = "new"
           /\ rowValue[o.rec] = "old"


\* C32: an evaluation of a DeferredQuerySet of model M that refreshes
\* (_fetch_all always, count and exists without cached results) while M has
\* pending records goes through: M's pending list is flushed, a row is
\* inserted for each of its new records, and the pending list of every other
\* model is left as it was.
C32_QueryFlushesItsModel ==
    [][\A m \in OptimizedModels :
          (/\ lastOp'.op \in EvalOps /\ Refreshing(lastOp'.op)
           /\ lastOp'.rec = m
           /\ Pending(mcache, m) # <<>>)
          => /\ lastOp'.result = "evaluated"
             /\ Pending(mcache', m) = <<>>
             /\ \A o \in RecsOf(SelectCopies(Pending(mcache, m), TRUE)) :
                    rows'[o] > rows[o]
             /\ \A n \in Models \ {m} :
                    Pending(mcache', n) = Pending(mcache, n)]_vars


\* C33: when a scope is left and the enclosing atomic block has committed or
\* rolled back (the body may have raised), the exit runs the exit of the
\* atomic block, the restore of the original save and the bulk flush, in
\* that order, and the flush is issued.
C33_ExitOrderAndFlush ==
    [][(/\ depth' = depth - 1
        /\ lastOp'.op = "exit"
        /\ lastOp'.rec \in {"normal", "body_exception"})
       => /\ events' = <<"atomic_exit", "rollback_save_method",
                         "perform_delayed_db_queries">>
          /\ lastOp'.result = "flushed"
          /\ mcache' = EmptyCache]_vars


\* _prepare_qs run on a query with the triple that the query holds
Rewritten(q) ==
    prepare_qs(q, q.registry_fields[SELECT], q.registry_fields[PREFETCH],
               q.registry_fields[OnlyIndex])

\* C34: on a query that is built and neither fetched nor projected, running
\* the three passes twice with the same triple leaves the eager joins, the
\* batch-fetch directives and the column restriction that running them once
\* leaves.
C34_RewriteIdempotent ==
    (query.phase = "built" /\ query.fields = "None"
         /\ query.result_cache = "None")
    => Plan(Rewritten(Rewritten(query))) = Plan(Rewritten(query))


\* the query that the call site makes next, as its fetch rewrites it
NextQuery(c) == optimize(NewQuerySet(c, SiteLocation, manual, conf))

\* a read, on an observed record of a location with a non-empty only set, of
\* a column that the fetch left out
DeferredRead(item) ==
    /\ ObservedRead(item)
    /\ Deferred(query, item)
    /\ ~query.without_only

NestedRead(label, item) ==
    /\ label \in DOMAIN nested
    /\ nested[label].qs.yielded = "wrapped"
    /\ item \notin nested[label].readsDone
    /\ label \in DOMAIN nested'
    /\ item \in nested'[label].readsDone

=============================================================================
